---- MODULE Spec2Model ----
(***************************************************************************)
(* Batch-based stock ledger of the pharmacy back office (HEXSAj/pms-new):  *)
(* the purchase order form and its submission (AddPurchaseModal), the     *)
(* record store it writes to, the stock aggregation of InventoryPage, the  *)
(* batch list of ViewBatchesModal and the two pure classifiers (expiry     *)
(* status of a batch, stock status of an item).                           *)
(*                                                                         *)
(* Representation.                                                         *)
(*  - A text input value is a sequence of one-character strings, "" is     *)
(*    <<>>.  A date input value ("YYYY-MM-DD") is <<d>> with d the day     *)
(*    number of that calendar date, and <<>> when empty or null.           *)
(*  - A JavaScript number is an integer count of thousandths (Scale), so   *)
(*    3 is 3000 and 10.005 is 10005; parseFloat yields a record with a     *)
(*    nan flag because NaN compares false with everything.                 *)
(*  - Instants are minutes since the epoch (the source's milliseconds      *)
(*    divided by 60000, which no comparison or ceiling in the code sees).  *)
(*  - An array the code mutates in place (the batches array of a line      *)
(*    item) lives in heap and is named by a reference, so that the form    *)
(*    and a submission in flight share it as they do in the program.       *)
(***************************************************************************)
EXTENDS Integers, Sequences, FiniteSets, TLC

----------------------------------------------------------------------------
(* Bounds *)

MaxEdits == 1          \* form edits made after the initial filling
MaxPurchases == 2      \* push() keys handed out under purchases/
MaxBatchEntries == 2   \* batch entries per line item

ItemIds == {"I1", "I2"}
SupplierIds == {"S1"}

\* what the user types into a quantity, a price and a date field
QtyInputs == {<<>>, <<"0">>, <<"x">>, <<"7">>, <<"-", "1">>}
PriceInputs == {<<>>, <<"-", "1">>, <<"x">>}
DateInputs == {<<>>}

Scale == 10 * 10 * 10

----------------------------------------------------------------------------
(* JavaScript primitives used by the code *)

DigitChars == <<"0", "1", "2", "3", "4", "5", "6", "7", "8", "9">>

IsDigit(c) == \E d \in 1..10 : DigitChars[d] = c

DigitVal(c) == (CHOOSE d \in 1..10 : DigitChars[d] = c) - 1

RECURSIVE ScanInt(_, _, _)
ScanInt(s, i, acc) ==
  IF i <= Len(s) /\ IsDigit(s[i])
  THEN ScanInt(s, i + 1, acc * 10 + DigitVal(s[i]))
  ELSE <<acc, i>>

RECURSIVE ScanFrac(_, _, _, _)
ScanFrac(s, i, acc, w) ==
  IF i <= Len(s) /\ IsDigit(s[i])
  THEN ScanFrac(s, i + 1, acc + DigitVal(s[i]) * w, w \div 10)
  ELSE <<acc, i>>

NaN == [nan |-> TRUE, v |-> 0]

Num(n) == [nan |-> FALSE, v |-> n]

\* parseFloat: optional sign, digits, optional fraction; the longest numeric
\* prefix counts and a string without one is NaN
parseFloat(s) ==
  LET neg == Len(s) >= 1 /\ s[1] = "-"
      start == IF Len(s) >= 1 /\ s[1] \in {"-", "+"} THEN 2 ELSE 1
      ip == ScanInt(s, start, 0)
      hasInt == ip[2] > start
      hasDot == ip[2] <= Len(s) /\ s[ip[2]] = "."
      fp == IF hasDot THEN ScanFrac(s, ip[2] + 1, 0, Scale \div 10)
                      ELSE <<0, ip[2]>>
      hasFrac == hasDot /\ fp[2] > ip[2] + 1
      mag == ip[1] * Scale + fp[1]
  IN  IF ~hasInt /\ ~hasFrac THEN NaN
      ELSE Num(IF neg THEN 0 - mag ELSE mag)

isNaN(x) == x.nan

\* x || 0 on a number: NaN and 0 are falsy
OrZero(x) == IF x.nan THEN 0 ELSE x.v

\* Math.round on a number of thousandths: nearest integer, halves up
MathRound(n) == ((n + Scale \div 2) \div Scale) * Scale

\* a * b on numbers of thousandths (exact for the products the model forms)
Times(a, b) == (a * b) \div Scale

RECURSIVE SeqSum(_)
SeqSum(s) == IF s = <<>> THEN 0 ELSE Head(s) + SeqSum(Tail(s))

\* the keys of a store collection in ascending (push) order
RECURSIVE KeysOf(_)
KeysOf(S) ==
  IF S = {} THEN <<>>
  ELSE LET m == CHOOSE x \in S : \A y \in S : x <= y
       IN  <<m>> \o KeysOf(S \ {m})

----------------------------------------------------------------------------
VARIABLES
  \* Record Store (shared by every session)
  dbSuppliers,        \* suppliers/{id}: id -> [name, companyName]
  dbPurchases,        \* purchases/{id}: id -> purchaseData
  dbBatches,          \* batches/{id}:   id -> batchData
  purchaseKeys,       \* number of push() keys handed out under purchases/
  batchKeys,          \* number of push() keys handed out under batches/
  purchaseWrites,     \* set() calls on purchases/ issued and not yet settled
  batchWrites,        \* set() calls on batches/ issued and not yet settled
  today,              \* the current calendar date (day number)
  \* AddPurchaseModal
  isOpen, loading, suppliers, suppliersOn, suppliersDue,
  selectedSupplierId, purchaseDate, purchaseItems, heap,
  pc,                 \* where handleSubmit is suspended: idle, awaitPurchase, awaitBatches
  closure,            \* purchaseItems and purchaseId captured by the running handleSubmit
  awaited,            \* batch writes Promise.all still waits for
  alert,              \* the last alert() shown
  onSuccessCalls, onCloseCalls,
  edits,              \* form edits made so far
  \* InventoryPage and its ViewBatchesModal (another session of the same store)
  user,               \* the authenticated-session signal
  batchesListeners,   \* callbacks this client has registered on batches/
  batchesDue,         \* callbacks a snapshot of batches/ is on its way to
  batches,            \* InventoryPage state: stockByItem
  isBatchesModalOpen, selectedItem,
  vbmBatches,         \* ViewBatchesModal state: batches
  \* one rendering of a batch row and of a status badge
  tzOffset,           \* the client's UTC offset in minutes (local = UTC + tzOffset)
  rowExpiryDate, row, \* the batch row's expiryDate and what was rendered for it
  summary,            \* the sizes of the expired and expiring-soon summaries
  badgeStock, badgeMinimumStock, badge,
  \* a second session with its own AddPurchaseModal
  other,              \* its handleSubmit: pc, purchaseId, awaited, outcome
  \* the inventory listener of AddPurchaseModal (registered while suppliersOn)
  apmInventoryItems, apmInventoryDue,
  \* the catalog: inventory/ and categories/, and InventoryPage with its
  \* AddInventoryModal, EditInventoryModal and AddCategoryModal
  dbInventory,        \* inventory/{id}: id -> [currentStock, minimumStock]
  dbCategories,       \* categories/{id}: id -> name
  itemWrite,          \* the set() or update() on inventory/ that is pending
  inventoryListeners, inventoryDue,     \* callbacks of this client on inventory/
  categoriesListeners, categoriesDue,   \* callbacks of this client on categories/
  inventoryItems,     \* InventoryPage state
  categoriesOf,       \* the categories state of each view that keeps one
  isModalOpen, isEditModalOpen, isCategoryModalOpen,
  pageAlert

storeVars == <<dbSuppliers, dbPurchases, dbBatches, purchaseKeys, batchKeys,
               purchaseWrites, batchWrites, today>>
formVars == <<selectedSupplierId, purchaseDate, purchaseItems, heap>>
modalVars == <<isOpen, loading, suppliers, suppliersOn, suppliersDue, pc, closure,
               awaited, alert, onSuccessCalls, onCloseCalls, edits>>
viewVars == <<user, batchesListeners, batchesDue, batches, isBatchesModalOpen,
              selectedItem, vbmBatches>>
renderVars == <<tzOffset, rowExpiryDate, row, summary, badgeStock, badgeMinimumStock,
               badge>>
otherVars == <<other>>
modalInventoryVars == <<apmInventoryItems, apmInventoryDue>>
catalogVars == <<dbInventory, dbCategories, itemWrite, inventoryListeners, inventoryDue,
                 categoriesListeners, categoriesDue, inventoryItems, categoriesOf,
                 isModalOpen, isEditModalOpen, isCategoryModalOpen, pageAlert>>
vars == <<storeVars, formVars, modalVars, viewVars, renderVars, otherVars, catalogVars,
          modalInventoryVars>>

----------------------------------------------------------------------------
(* AddPurchaseModal: the order form *)

NoClosure == [purchaseItems |-> <<>>, purchaseId |-> 0]

EmptyBatchEntry == [quantity |-> <<>>, expiryDate |-> <<>>]

RefsOf(items) == {items[i].batches : i \in DOMAIN items}

\* a reference no live array uses (a fresh array literal)
NewRef == CHOOSE r \in 1..(2 * Cardinality(ItemIds) + 1) : r \notin DOMAIN heap

\* arrays no longer reachable from the form or from a running handleSubmit
Collect(h, items, clo) ==
  [r \in (DOMAIN h) \cap (RefsOf(items) \cup RefsOf(clo.purchaseItems)) |-> h[r]]

\* the snapshot mapping of the suppliers listener: Object.keys(data).map(...)
SuppliersSnapshot == dbSuppliers

Edit == /\ isOpen
        /\ edits < MaxEdits
        /\ edits' = edits + 1

setSelectedSupplierId(id) ==
  /\ Edit
  /\ id = "" \/ id \in DOMAIN suppliers
  /\ selectedSupplierId' = id
  /\ UNCHANGED <<storeVars, purchaseDate, purchaseItems, heap, isOpen, loading,
                 suppliers, suppliersOn, suppliersDue, pc, closure, awaited, alert,
                 onSuccessCalls, onCloseCalls, viewVars, renderVars, otherVars, catalogVars, modalInventoryVars>>

setPurchaseDate(d) ==
  /\ Edit
  /\ purchaseDate' = d
  /\ UNCHANGED <<storeVars, selectedSupplierId, purchaseItems, heap, isOpen, loading,
                 suppliers, suppliersOn, suppliersDue, pc, closure, awaited, alert,
                 onSuccessCalls, onCloseCalls, viewVars, renderVars, otherVars, catalogVars, modalInventoryVars>>

handleAddItem(item) ==
  /\ Edit
  /\ item \in DOMAIN apmInventoryItems
  /\ IF \E i \in DOMAIN purchaseItems : purchaseItems[i].itemId = item
     THEN /\ alert' = "already added"
          /\ UNCHANGED <<purchaseItems, heap>>
     ELSE /\ purchaseItems' = Append(purchaseItems,
                 [itemId |-> item, costPrice |-> <<>>, sellingPrice |-> <<>>,
                  batches |-> NewRef])
          /\ heap' = heap @@ (NewRef :> <<EmptyBatchEntry>>)
          /\ UNCHANGED alert
  /\ UNCHANGED <<storeVars, selectedSupplierId, purchaseDate, isOpen, loading,
                 suppliers, suppliersOn, suppliersDue, pc, closure, awaited,
                 onSuccessCalls, onCloseCalls, viewVars, renderVars, otherVars, catalogVars, modalInventoryVars>>

handleRemoveItem(index) ==
  /\ Edit
  /\ index \in DOMAIN purchaseItems
  /\ LET kept == SelectSeq([i \in DOMAIN purchaseItems |-> <<i, purchaseItems[i]>>],
                           LAMBDA p : p[1] # index)
         items == [i \in DOMAIN kept |-> kept[i][2]]
     IN  /\ purchaseItems' = items
         /\ heap' = Collect(heap, items, closure)
  /\ UNCHANGED <<storeVars, selectedSupplierId, purchaseDate, isOpen, loading,
                 suppliers, suppliersOn, suppliersDue, pc, closure, awaited, alert,
                 onSuccessCalls, onCloseCalls, viewVars, renderVars, otherVars, catalogVars, modalInventoryVars>>

\* updated[index] = {...updated[index], [field]: value}: a new item object
\* that still holds the same batches array
handleItemChange(index, field, value) ==
  /\ Edit
  /\ index \in DOMAIN purchaseItems
  /\ purchaseItems' = [purchaseItems EXCEPT ![index][field] = value]
  /\ UNCHANGED <<storeVars, selectedSupplierId, purchaseDate, heap, isOpen, loading,
                 suppliers, suppliersOn, suppliersDue, pc, closure, awaited, alert,
                 onSuccessCalls, onCloseCalls, viewVars, renderVars, otherVars, catalogVars, modalInventoryVars>>

\* updated[itemIndex].batches.push(...): the array is changed in place
handleAddBatch(itemIndex) ==
  /\ Edit
  /\ itemIndex \in DOMAIN purchaseItems
  /\ Len(heap[purchaseItems[itemIndex].batches]) < MaxBatchEntries
  /\ heap' = [heap EXCEPT ![purchaseItems[itemIndex].batches] =
                                Append(@, EmptyBatchEntry)]
  /\ UNCHANGED <<storeVars, selectedSupplierId, purchaseDate, purchaseItems, isOpen,
                 loading, suppliers, suppliersOn, suppliersDue, pc, closure, awaited,
                 alert, onSuccessCalls, onCloseCalls, viewVars, renderVars, otherVars, catalogVars, modalInventoryVars>>

\* handleRemoveBatch without the test batches.length > 1
handleRemoveBatch_NoLengthTest(itemIndex, batchIndex) ==
  /\ Edit
  /\ itemIndex \in DOMAIN purchaseItems
  /\ LET r == purchaseItems[itemIndex].batches
     IN  /\ batchIndex \in DOMAIN heap[r]
         /\ heap' = [heap EXCEPT ![r] =
               SubSeq(@, 1, batchIndex - 1) \o SubSeq(@, batchIndex + 1, Len(@))]
  /\ UNCHANGED <<storeVars, selectedSupplierId, purchaseDate, purchaseItems, isOpen,
                 loading, suppliers, suppliersOn, suppliersDue, pc, closure, awaited,
                 alert, onSuccessCalls, onCloseCalls, viewVars, renderVars, otherVars,
                 catalogVars, modalInventoryVars>>

handleRemoveBatch(itemIndex, batchIndex) ==
  /\ Edit
  /\ itemIndex \in DOMAIN purchaseItems
  /\ LET r == purchaseItems[itemIndex].batches
     IN  /\ batchIndex \in DOMAIN heap[r]
         /\ IF Len(heap[r]) > 1
            THEN /\ heap' = [heap EXCEPT ![r] =
                       SubSeq(@, 1, batchIndex - 1) \o SubSeq(@, batchIndex + 1, Len(@))]
                 /\ UNCHANGED alert
            ELSE /\ alert' = "at least one batch"
                 /\ UNCHANGED heap
  /\ UNCHANGED <<storeVars, selectedSupplierId, purchaseDate, purchaseItems, isOpen,
                 loading, suppliers, suppliersOn, suppliersDue, pc, closure, awaited,
                 onSuccessCalls, onCloseCalls, viewVars, renderVars, otherVars, catalogVars, modalInventoryVars>>

\* updated[itemIndex].batches[batchIndex][field] = value: the entry object is
\* changed in place
handleBatchChange(itemIndex, batchIndex, field, value) ==
  /\ Edit
  /\ itemIndex \in DOMAIN purchaseItems
  /\ LET r == purchaseItems[itemIndex].batches
     IN  /\ batchIndex \in DOMAIN heap[r]
         /\ heap' = [heap EXCEPT ![r][batchIndex][field] = value]
  /\ UNCHANGED <<storeVars, selectedSupplierId, purchaseDate, purchaseItems, isOpen,
                 loading, suppliers, suppliersOn, suppliersDue, pc, closure, awaited,
                 alert, onSuccessCalls, onCloseCalls, viewVars, renderVars, otherVars, catalogVars, modalInventoryVars>>

----------------------------------------------------------------------------
(* AddPurchaseModal.handleSubmit *)

InitialStock == 0

\* BatchAlert with the quantity test weakened to < 0: a quantity of 0 passes
RECURSIVE BatchAlert_AllowsZero(_, _)
BatchAlert_AllowsZero(bs, j) ==
  IF j > Len(bs) THEN "ok"
  ELSE LET quantity == parseFloat(bs[j].quantity)
       IN  IF bs[j].quantity = <<>> \/ isNaN(quantity) \/ quantity.v < 0
           THEN "quantity"
           ELSE IF bs[j].expiryDate = <<>> THEN "expiry date"
           ELSE BatchAlert_AllowsZero(bs, j + 1)

\* BatchAlert with the expiry date test missing
RECURSIVE BatchAlert_NoExpiryTest(_, _)
BatchAlert_NoExpiryTest(bs, j) ==
  IF j > Len(bs) THEN "ok"
  ELSE LET quantity == parseFloat(bs[j].quantity)
       IN  IF bs[j].quantity = <<>> \/ isNaN(quantity) \/ quantity.v <= 0
           THEN "quantity"
           ELSE BatchAlert_NoExpiryTest(bs, j + 1)

RECURSIVE BatchAlert(_, _)
BatchAlert(bs, j) ==
  IF j > Len(bs) THEN "ok"
  ELSE LET quantity == parseFloat(bs[j].quantity)
       IN  IF bs[j].quantity = <<>> \/ isNaN(quantity) \/ quantity.v <= 0
           THEN "quantity"
           ELSE IF bs[j].expiryDate = <<>> THEN "expiry date"
           ELSE BatchAlert(bs, j + 1)

\* the validation loop: the alert of the first invalid field, or "ok"
RECURSIVE ItemAlert(_, _, _)
ItemAlert(items, h, i) ==
  IF i > Len(items) THEN "ok"
  ELSE LET item == items[i]
           costPrice == parseFloat(item.costPrice)
           sellingPrice == parseFloat(item.sellingPrice)
       IN  IF item.costPrice = <<>> \/ isNaN(costPrice) \/ costPrice.v < 0
           THEN "cost price"
           ELSE IF item.sellingPrice = <<>> \/ isNaN(sellingPrice) \/ sellingPrice.v < 0
           THEN "selling price"
           ELSE IF Len(h[item.batches]) = 0 THEN "no batch entry"
           ELSE IF BatchAlert(h[item.batches], 1) # "ok"
           THEN BatchAlert(h[item.batches], 1)
           ELSE ItemAlert(items, h, i + 1)

ValidationAlert ==
  IF selectedSupplierId = "" THEN "select a supplier"
  ELSE IF Len(purchaseItems) = 0 THEN "add at least one item"
  ELSE ItemAlert(purchaseItems, heap, 1)

\* the batch entries of all line items, in forEach order, each with its item
RECURSIVE Entries(_, _)
Entries(items, h) ==
  IF items = <<>> THEN <<>>
  ELSE LET item == Head(items)
           bs == h[item.batches]
       IN  [j \in DOMAIN bs |-> [item |-> item, batch |-> bs[j]]]
             \o Entries(Tail(items), h)

totalQuantity(items, h) ==
  LET es == Entries(items, h)
  IN  SeqSum([k \in DOMAIN es |-> OrZero(parseFloat(es[k].batch.quantity))])

totalCost(items, h) ==
  LET es == Entries(items, h)
  IN  SeqSum([k \in DOMAIN es |->
               Times(OrZero(parseFloat(es[k].batch.quantity)),
                     OrZero(parseFloat(es[k].item.costPrice))) * 100])

\* the purchaseData object of a session whose form holds these values
PurchaseRecord(supplierId, selectedSupplier, date, items, h) ==
  [supplierId |-> supplierId,
   supplierName |-> IF selectedSupplier.companyName # ""
                    THEN selectedSupplier.companyName ELSE selectedSupplier.name,
   purchaseDate |-> date,
   totalItems |-> Len(items),
   totalQuantity |-> totalQuantity(items, h),
   totalCost |-> totalCost(items, h)]

purchaseData(selectedSupplier) ==
  PurchaseRecord(selectedSupplierId, selectedSupplier, purchaseDate, purchaseItems, heap)

batchData(item, batch, purchaseId) ==
  [itemId |-> item.itemId,
   purchaseId |-> purchaseId,
   quantity |-> OrZero(parseFloat(batch.quantity)),
   costPrice |-> MathRound(OrZero(parseFloat(item.costPrice)) * 100),
   sellingPrice |-> MathRound(OrZero(parseFloat(item.sellingPrice)) * 100),
   expiryDate |-> batch.expiryDate]

\* the submit button disabled only for an empty order: disabled without loading
SubmitDisabled_IgnoresLoading == Len(purchaseItems) = 0

\* the submit button: disabled={loading || purchaseItems.length === 0}
SubmitDisabled == loading \/ Len(purchaseItems) = 0

\* Catch with the form reset moved into it
Catch_ClearsForm ==
  /\ alert' = "failed"
  /\ loading' = FALSE
  /\ pc' = "idle"
  /\ closure' = NoClosure
  /\ awaited' = {}
  /\ selectedSupplierId' = ""
  /\ purchaseItems' = <<>>
  /\ UNCHANGED <<purchaseDate, isOpen, suppliers, suppliersOn, suppliersDue,
                 onSuccessCalls, onCloseCalls, viewVars, renderVars, otherVars, catalogVars, modalInventoryVars>>

\* Catch without the finally block: loading stays true
Catch_NoFinally ==
  /\ alert' = "failed"
  /\ pc' = "idle"
  /\ closure' = NoClosure
  /\ awaited' = {}
  /\ UNCHANGED <<loading, selectedSupplierId, purchaseDate, purchaseItems, isOpen,
                 suppliers, suppliersOn, suppliersDue, onSuccessCalls, onCloseCalls,
                 viewVars, renderVars, otherVars, catalogVars, modalInventoryVars>>

\* catch: alert, nothing else; finally: setLoading(false)
Catch ==
  /\ alert' = "failed"
  /\ loading' = FALSE
  /\ pc' = "idle"
  /\ closure' = NoClosure
  /\ awaited' = {}
  /\ UNCHANGED <<selectedSupplierId, purchaseDate, purchaseItems, isOpen,
                 suppliers, suppliersOn, suppliersDue, onSuccessCalls, onCloseCalls, viewVars, renderVars, otherVars, catalogVars, modalInventoryVars>>

\* the synchronous part of handleSubmit, up to await set(newPurchaseRef, ...)
handleSubmit ==
  /\ isOpen
  /\ ~SubmitDisabled
  /\ purchaseKeys < MaxPurchases
  /\ IF ValidationAlert # "ok"
     THEN /\ alert' = ValidationAlert
          /\ UNCHANGED <<storeVars, formVars, isOpen, loading, suppliers, suppliersOn,
                         suppliersDue, pc, closure, awaited, onSuccessCalls,
                         onCloseCalls, viewVars, renderVars, otherVars, catalogVars, modalInventoryVars>>
     ELSE IF selectedSupplierId \notin DOMAIN suppliers
     THEN /\ Catch
          /\ UNCHANGED <<storeVars, heap, viewVars, renderVars, otherVars, catalogVars, modalInventoryVars>>
     ELSE LET purchaseId == purchaseKeys + 1
          IN  /\ loading' = TRUE
              /\ purchaseKeys' = purchaseId
              /\ purchaseWrites' = purchaseWrites \cup
                    {[key |-> purchaseId,
                      data |-> purchaseData(suppliers[selectedSupplierId])]}
              /\ closure' = [purchaseItems |-> purchaseItems, purchaseId |-> purchaseId]
              /\ pc' = "awaitPurchase"
              /\ UNCHANGED <<dbSuppliers, dbPurchases, dbBatches, batchKeys, batchWrites,
                             today, formVars, isOpen, suppliers, suppliersOn,
                             suppliersDue, awaited, alert, onSuccessCalls, onCloseCalls, viewVars, renderVars, otherVars, catalogVars, modalInventoryVars>>
  /\ UNCHANGED edits

\* PurchaseWriteResolves with batch keys that are not unique across sessions:
\* the number of stored batch records plus one, two, ...
PurchaseWriteResolves_KeysFromCount ==
  /\ pc = "awaitPurchase"
  /\ \E w \in purchaseWrites :
       /\ w.key = closure.purchaseId
       /\ dbPurchases' = dbPurchases @@ (w.key :> w.data)
       /\ purchaseWrites' = purchaseWrites \ {w}
       /\ LET es == Entries(closure.purchaseItems, heap)
              new == {[key |-> Cardinality(DOMAIN dbBatches) + k,
                       data |-> batchData(es[k].item, es[k].batch, closure.purchaseId)]
                      : k \in DOMAIN es}
          IN  /\ batchWrites' = batchWrites \cup new
              /\ batchKeys' = batchKeys + Len(es)
              /\ awaited' = {w2.key : w2 \in new}
       /\ closure' = NoClosure
       /\ heap' = Collect(heap, purchaseItems, NoClosure)
       /\ pc' = "awaitBatches"
  /\ UNCHANGED <<dbSuppliers, dbBatches, purchaseKeys, today, selectedSupplierId,
                 purchaseDate, purchaseItems, isOpen, loading, suppliers, suppliersOn,
                 suppliersDue, alert, onSuccessCalls, onCloseCalls, edits, viewVars,
                 renderVars, otherVars, catalogVars, modalInventoryVars>>

\* set(newPurchaseRef, purchaseData) resolves; handleSubmit resumes, walks
\* purchaseItems and issues one set() per batch entry, then awaits Promise.all
PurchaseWriteResolves ==
  /\ pc = "awaitPurchase"
  /\ \E w \in purchaseWrites :
       /\ w.key = closure.purchaseId
       /\ dbPurchases' = dbPurchases @@ (w.key :> w.data)
       /\ purchaseWrites' = purchaseWrites \ {w}
       /\ LET es == Entries(closure.purchaseItems, heap)
              new == {[key |-> batchKeys + k,
                       data |-> batchData(es[k].item, es[k].batch, closure.purchaseId)]
                      : k \in DOMAIN es}
          IN  /\ batchWrites' = batchWrites \cup new
              /\ batchKeys' = batchKeys + Len(es)
              /\ awaited' = {w2.key : w2 \in new}
       /\ closure' = NoClosure
       /\ heap' = Collect(heap, purchaseItems, NoClosure)
       /\ pc' = "awaitBatches"
  /\ UNCHANGED <<dbSuppliers, dbBatches, purchaseKeys, today, selectedSupplierId,
                 purchaseDate, purchaseItems, isOpen, loading, suppliers, suppliersOn,
                 suppliersDue, alert, onSuccessCalls, onCloseCalls, edits, viewVars, renderVars, otherVars, catalogVars, modalInventoryVars>>

\* PurchaseWriteRejects with the await on the purchase write missing: the
\* batch writes are issued although the purchase write fails
PurchaseWriteRejects_IssuesBatches ==
  /\ pc = "awaitPurchase"
  /\ \E w \in purchaseWrites :
       /\ w.key = closure.purchaseId
       /\ purchaseWrites' = purchaseWrites \ {w}
  /\ LET es == Entries(closure.purchaseItems, heap)
     IN  /\ batchWrites' = batchWrites \cup
               {[key |-> batchKeys + k,
                 data |-> batchData(es[k].item, es[k].batch, closure.purchaseId)]
                : k \in DOMAIN es}
         /\ batchKeys' = batchKeys + Len(es)
  /\ Catch
  /\ heap' = Collect(heap, purchaseItems, NoClosure)
  /\ UNCHANGED <<dbSuppliers, dbPurchases, dbBatches, purchaseKeys, today, edits>>

\* set(newPurchaseRef, purchaseData) rejects: the await throws
PurchaseWriteRejects ==
  /\ pc = "awaitPurchase"
  /\ \E w \in purchaseWrites :
       /\ w.key = closure.purchaseId
       /\ purchaseWrites' = purchaseWrites \ {w}
  /\ Catch
  /\ heap' = Collect(heap, purchaseItems, NoClosure)
  /\ UNCHANGED <<dbSuppliers, dbPurchases, dbBatches, purchaseKeys, batchKeys,
                 batchWrites, today, edits, viewVars, renderVars, otherVars, catalogVars, modalInventoryVars>>

\* after await Promise.all(batchPromises): reset the form, onSuccess(),
\* onClose() (PurchasingPage: setIsModalOpen(false), whose effect cleanup is
\* off(suppliersRef)), finally setLoading(false)
ResetAndClose ==
  /\ selectedSupplierId' = ""
  /\ purchaseDate' = <<today>>
  /\ purchaseItems' = <<>>
  /\ heap' = Collect(heap, <<>>, NoClosure)
  /\ onSuccessCalls' = onSuccessCalls + 1
  /\ onCloseCalls' = onCloseCalls + 1
  /\ isOpen' = FALSE
  /\ suppliersOn' = FALSE
  /\ suppliersDue' = FALSE
  /\ apmInventoryDue' = FALSE
  /\ loading' = FALSE
  /\ pc' = "idle"
  /\ UNCHANGED <<suppliers, apmInventoryItems, closure, alert>>

\* one set(newBatchRef, batchData) resolves: the record is in the ledger and
\* every callback registered on batches/ gets a new snapshot.  Promise.all
\* resumes handleSubmit when this was the last write it waited for.
BatchWriteResolves(w) ==
  /\ w \in batchWrites
  /\ w.key \notin other.awaited
  /\ dbBatches' = dbBatches @@ (w.key :> w.data)
  /\ batchWrites' = batchWrites \ {w}
  /\ batchesDue' = batchesListeners
  /\ IF pc = "awaitBatches" /\ w.key \in awaited
     THEN /\ awaited' = awaited \ {w.key}
          /\ IF awaited' = {}
             THEN ResetAndClose
             ELSE UNCHANGED <<formVars, isOpen, loading, suppliers, suppliersOn,
                              suppliersDue, pc, closure, alert, onSuccessCalls,
                              onCloseCalls, modalInventoryVars>>
     ELSE UNCHANGED <<formVars, modalVars, modalInventoryVars>>
  /\ UNCHANGED <<dbSuppliers, dbPurchases, purchaseKeys, batchKeys, purchaseWrites,
                 today, edits, user, batchesListeners, batches, isBatchesModalOpen,
                 selectedItem, vbmBatches, renderVars, otherVars, catalogVars>>

\* BatchWriteRejects with a compensating action: the purchase record of the
\* failed write is removed again
BatchWriteRejects_Compensates(w) ==
  /\ w \in batchWrites
  /\ w.key \notin other.awaited
  /\ batchWrites' = batchWrites \ {w}
  /\ dbPurchases' = [id \in (DOMAIN dbPurchases) \ {w.data.purchaseId} |-> dbPurchases[id]]
  /\ IF pc = "awaitBatches" /\ w.key \in awaited
     THEN Catch /\ UNCHANGED heap
     ELSE UNCHANGED <<formVars, modalVars, viewVars, renderVars, otherVars, catalogVars, modalInventoryVars>>
  /\ UNCHANGED <<dbSuppliers, dbBatches, purchaseKeys, batchKeys, purchaseWrites,
                 today, edits>>

\* one set(newBatchRef, batchData) rejects: Promise.all rejects at once and
\* handleSubmit goes to catch; the other writes stay in flight
BatchWriteRejects(w) ==
  /\ w \in batchWrites
  /\ w.key \notin other.awaited
  /\ batchWrites' = batchWrites \ {w}
  /\ IF pc = "awaitBatches" /\ w.key \in awaited
     THEN Catch /\ UNCHANGED heap
     ELSE UNCHANGED <<formVars, modalVars, viewVars, renderVars, otherVars, catalogVars, modalInventoryVars>>
  /\ UNCHANGED <<dbSuppliers, dbPurchases, dbBatches, purchaseKeys, batchKeys,
                 purchaseWrites, today, edits>>

\* PurchasingPage: the "New Purchase" button, setIsModalOpen(true); the
\* effects of AddPurchaseModal register the suppliers listener and the
\* inventory listener
OpenPurchaseModal ==
  /\ ~isOpen
  /\ isOpen' = TRUE
  /\ suppliersOn' = TRUE
  /\ suppliersDue' = TRUE
  /\ apmInventoryDue' = TRUE
  /\ UNCHANGED <<storeVars, formVars, loading, suppliers, pc, closure, awaited, alert,
                 onSuccessCalls, onCloseCalls, edits, viewVars, renderVars, otherVars,
                 catalogVars, apmInventoryItems>>

\* ClosePurchaseModal with the effect cleanups missing: the callbacks stay
\* registered
ClosePurchaseModal_KeepsListeners ==
  /\ isOpen
  /\ isOpen' = FALSE
  /\ UNCHANGED <<storeVars, formVars, loading, suppliers, suppliersOn, suppliersDue, pc,
                 closure, awaited, alert, onSuccessCalls, onCloseCalls, edits, viewVars,
                 renderVars, otherVars, catalogVars, modalInventoryVars>>

\* the X and Cancel buttons: onClose; effect cleanups off(suppliersRef) and
\* off(inventoryRef)
ClosePurchaseModal ==
  /\ isOpen
  /\ isOpen' = FALSE
  /\ suppliersOn' = FALSE
  /\ suppliersDue' = FALSE
  /\ apmInventoryDue' = FALSE
  /\ UNCHANGED <<storeVars, formVars, loading, suppliers, pc, closure, awaited, alert,
                 onSuccessCalls, onCloseCalls, edits, viewVars, renderVars, otherVars,
                 catalogVars, apmInventoryItems>>

\* the inventory listener of AddPurchaseModal runs with the current snapshot
ModalInventoryListener ==
  /\ suppliersOn /\ apmInventoryDue
  /\ apmInventoryItems' = dbInventory
  /\ apmInventoryDue' = FALSE
  /\ UNCHANGED <<storeVars, formVars, modalVars, viewVars, renderVars, otherVars,
                 catalogVars>>

\* the suppliers listener of AddPurchaseModal runs with the current snapshot
SuppliersListener ==
  /\ suppliersOn /\ suppliersDue
  /\ suppliers' = SuppliersSnapshot
  /\ suppliersDue' = FALSE
  /\ UNCHANGED <<storeVars, formVars, isOpen, loading, suppliersOn, pc, closure,
                 awaited, alert, onSuccessCalls, onCloseCalls, edits, viewVars, renderVars, otherVars, catalogVars, modalInventoryVars>>

\* SuppliersPage.handleDelete in another session: remove(supplierRef)
handleDelete(supplierId) ==
  /\ supplierId \in DOMAIN dbSuppliers
  /\ dbSuppliers' = [id \in (DOMAIN dbSuppliers) \ {supplierId} |-> dbSuppliers[id]]
  /\ suppliersDue' = suppliersOn
  /\ UNCHANGED <<dbPurchases, dbBatches, purchaseKeys, batchKeys, purchaseWrites,
                 batchWrites, today, formVars, isOpen, loading, suppliers, suppliersOn,
                 pc, closure, awaited, alert, onSuccessCalls, onCloseCalls, edits,
                 viewVars, renderVars, otherVars, catalogVars, modalInventoryVars>>

\* what the user of SuppliersPage types into the name and companyName fields
\* of SupplierModal (companyName.trim() || null: no company name is "")
SupplierInputs ==
  {[name |-> "Kamal", companyName |-> ""],
   [name |-> "Nimal", companyName |-> "Zenith Labs"]}

\* SupplierModal.handleSubmit in edit mode, in the session of SuppliersPage:
\* update(supplierRef, supplierData) on an existing supplier
SupplierModalSubmit(supplierId, formData) ==
  /\ supplierId \in DOMAIN dbSuppliers
  /\ dbSuppliers[supplierId] # formData
  /\ dbSuppliers' = [dbSuppliers EXCEPT ![supplierId] = formData]
  /\ suppliersDue' = suppliersOn
  /\ UNCHANGED <<dbPurchases, dbBatches, purchaseKeys, batchKeys, purchaseWrites,
                 batchWrites, today, formVars, isOpen, loading, suppliers, suppliersOn,
                 pc, closure, awaited, alert, onSuccessCalls, onCloseCalls, edits,
                 viewVars, renderVars, otherVars, catalogVars, modalInventoryVars>>

----------------------------------------------------------------------------
(* A second session: the same AddPurchaseModal in another browser, holding a *)
(* valid order for item I2 that its user does not touch while it is in       *)
(* flight.  Both sessions draw their push() keys from the same key space.    *)

\* the suppliers collection, which is also the snapshot the second session's
\* suppliers listener delivered when its modal opened
AllSuppliers == [id \in SupplierIds |-> [name |-> "Kamal", companyName |-> "Acme Pharma"]]

NoOther == [pc |-> "idle", purchaseId |-> 0, awaited |-> {}, outcome |-> ""]

OtherSupplierId == CHOOSE id \in SupplierIds : TRUE

OtherForm ==
  [purchaseItems |-> <<[itemId |-> "I2", costPrice |-> <<"4">>,
                        sellingPrice |-> <<"6">>, batches |-> 1]>>,
   heap |-> << <<[quantity |-> <<"2">>, expiryDate |-> <<41>>],
                 [quantity |-> <<"1">>, expiryDate |-> <<51>>]>> >>]

OtherFrame ==
  UNCHANGED <<dbSuppliers, today, formVars, modalVars, user, batchesListeners, batches,
              isBatchesModalOpen, selectedItem, vbmBatches, renderVars, catalogVars,
              modalInventoryVars>>

\* handleSubmit of the second session, up to await set(newPurchaseRef, ...)
OtherHandleSubmit ==
  /\ other.pc = "idle" /\ other.outcome = ""
  /\ purchaseKeys < MaxPurchases
  /\ ItemAlert(OtherForm.purchaseItems, OtherForm.heap, 1) = "ok"
  /\ OtherSupplierId \in DOMAIN AllSuppliers
  /\ LET purchaseId == purchaseKeys + 1
     IN  /\ purchaseKeys' = purchaseId
         /\ purchaseWrites' = purchaseWrites \cup
               {[key |-> purchaseId,
                 data |-> PurchaseRecord(OtherSupplierId, AllSuppliers[OtherSupplierId],
                                         <<today>>, OtherForm.purchaseItems,
                                         OtherForm.heap)]}
         /\ other' = [other EXCEPT !.pc = "awaitPurchase", !.purchaseId = purchaseId]
  /\ UNCHANGED <<dbPurchases, dbBatches, batchKeys, batchWrites, batchesDue>>
  /\ OtherFrame

OtherPurchaseWriteResolves ==
  /\ other.pc = "awaitPurchase"
  /\ \E w \in purchaseWrites :
       /\ w.key = other.purchaseId
       /\ dbPurchases' = dbPurchases @@ (w.key :> w.data)
       /\ purchaseWrites' = purchaseWrites \ {w}
       /\ LET es == Entries(OtherForm.purchaseItems, OtherForm.heap)
              new == {[key |-> batchKeys + k,
                       data |-> batchData(es[k].item, es[k].batch, other.purchaseId)]
                      : k \in DOMAIN es}
          IN  /\ batchWrites' = batchWrites \cup new
              /\ batchKeys' = batchKeys + Len(es)
              /\ other' = [other EXCEPT !.pc = "awaitBatches",
                                        !.awaited = {w2.key : w2 \in new}]
  /\ UNCHANGED <<dbBatches, purchaseKeys, batchesDue>>
  /\ OtherFrame

OtherPurchaseWriteRejects ==
  /\ other.pc = "awaitPurchase"
  /\ \E w \in purchaseWrites :
       /\ w.key = other.purchaseId
       /\ purchaseWrites' = purchaseWrites \ {w}
  /\ other' = [other EXCEPT !.pc = "idle", !.outcome = "failed"]
  /\ UNCHANGED <<dbPurchases, dbBatches, purchaseKeys, batchKeys, batchWrites, batchesDue>>
  /\ OtherFrame

OtherBatchWriteResolves(w) ==
  /\ w \in batchWrites
  /\ w.key \in other.awaited
  /\ dbBatches' = dbBatches @@ (w.key :> w.data)
  /\ batchWrites' = batchWrites \ {w}
  /\ batchesDue' = batchesListeners
  /\ other' = IF other.awaited = {w.key}
              THEN [other EXCEPT !.pc = "idle", !.awaited = {}, !.outcome = "success"]
              ELSE [other EXCEPT !.awaited = @ \ {w.key}]
  /\ UNCHANGED <<dbPurchases, purchaseKeys, batchKeys, purchaseWrites>>
  /\ OtherFrame

OtherBatchWriteRejects(w) ==
  /\ w \in batchWrites
  /\ w.key \in other.awaited
  /\ batchWrites' = batchWrites \ {w}
  /\ other' = [other EXCEPT !.pc = "idle", !.awaited = {}, !.outcome = "failed"]
  /\ UNCHANGED <<dbPurchases, dbBatches, purchaseKeys, batchKeys, purchaseWrites,
                 batchesDue>>
  /\ OtherFrame

OtherSubmission ==
  \/ OtherHandleSubmit
  \/ OtherPurchaseWriteResolves
  \/ OtherPurchaseWriteRejects
  \/ \E w \in batchWrites : OtherBatchWriteResolves(w)
  \/ \E w \in batchWrites : OtherBatchWriteRejects(w)

----------------------------------------------------------------------------
(* InventoryPage and ViewBatchesModal *)

\* the views of InventoryPage that keep a categories state
CategoryViews == {"InventoryPage", "EditInventoryModal", "AddCategoryModal"}

NoCategories == [v \in CategoryViews |-> <<>>]

NoWrite == [op |-> "", key |-> "", data |-> <<>>, by |-> ""]

\* a modal of InventoryPage is on screen and covers the page's buttons;
\* ViewBatchesModal is mounted only while selectedItem is set
ModalShown ==
  \/ isModalOpen \/ isEditModalOpen \/ isCategoryModalOpen
  \/ (isBatchesModalOpen /\ selectedItem # "")

\* StockByItem with the accumulation lost: a later batch of an item replaces
\* the item's total
RECURSIVE StockByItem_Overwrites(_, _, _)
StockByItem_Overwrites(data, keys, stockByItem) ==
  IF keys = <<>> THEN stockByItem
  ELSE StockByItem_Overwrites(data, Tail(keys),
         (data[Head(keys)].itemId :> data[Head(keys)].quantity) @@ stockByItem)

\* the forEach of the batches listener of InventoryPage over Object.keys(data)
RECURSIVE StockByItem(_, _, _)
StockByItem(data, keys, stockByItem) ==
  IF keys = <<>> THEN stockByItem
  ELSE LET batch == data[Head(keys)]
           itemId == batch.itemId
           quantity == batch.quantity
       IN  StockByItem(data, Tail(keys),
             IF itemId \in DOMAIN stockByItem /\ stockByItem[itemId] # 0
             THEN [stockByItem EXCEPT ![itemId] = @ + quantity]
             ELSE (itemId :> quantity) @@ stockByItem)

\* getStockFromBatches falling back to the item's currentStock field when the
\* ledger has no batch of the item
getStockFromBatches_UsesCurrentStock(itemId) ==
  IF itemId \in DOMAIN batches THEN batches[itemId]
  ELSE IF itemId \in DOMAIN inventoryItems
       THEN inventoryItems[itemId].currentStock * Scale
       ELSE 0

getStockFromBatches(itemId) ==
  IF itemId \in DOMAIN batches THEN batches[itemId] ELSE 0

\* new Date(expiryDate).getTime(): a date-only string is midnight UTC of that
\* date; null is the epoch
MinutesPerDay == 60 * 24

DateTime(expiryDate) == IF expiryDate = <<>> THEN 0 ELSE expiryDate[1] * MinutesPerDay

\* allBatches.sort((a, b) => time(a.expiryDate) - time(b.expiryDate)), stable
RECURSIVE SortByExpiry(_)
SortByExpiry(bs) ==
  IF bs = <<>> THEN <<>>
  ELSE LET rest == SortByExpiry(Tail(bs))
           b == Head(bs)
           before == SelectSeq(rest, LAMBDA x : DateTime(x.expiryDate) < DateTime(b.expiryDate))
           after == SelectSeq(rest, LAMBDA x : DateTime(x.expiryDate) >= DateTime(b.expiryDate))
       IN  before \o <<b>> \o after

\* BatchesOfItem without .filter((batch) => batch.itemId === itemId)
BatchesOfItem_Unfiltered(data, itemId) ==
  LET keys == KeysOf(DOMAIN data)
      allBatches == [k \in DOMAIN keys |->
                      [id |-> keys[k], itemId |-> data[keys[k]].itemId,
                       purchaseId |-> data[keys[k]].purchaseId,
                       quantity |-> data[keys[k]].quantity,
                       costPrice |-> data[keys[k]].costPrice,
                       sellingPrice |-> data[keys[k]].sellingPrice,
                       expiryDate |-> data[keys[k]].expiryDate]]
  IN  SortByExpiry(allBatches)

\* the snapshot mapping of the batches listener of ViewBatchesModal
BatchesOfItem(data, itemId) ==
  LET keys == KeysOf(DOMAIN data)
      allBatches == [k \in DOMAIN keys |->
                      [id |-> keys[k], itemId |-> data[keys[k]].itemId,
                       purchaseId |-> data[keys[k]].purchaseId,
                       quantity |-> data[keys[k]].quantity,
                       costPrice |-> data[keys[k]].costPrice,
                       sellingPrice |-> data[keys[k]].sellingPrice,
                       expiryDate |-> data[keys[k]].expiryDate]]
  IN  SortByExpiry(SelectSeq(allBatches, LAMBDA b : b.itemId = itemId))

\* the Total Stock of ViewBatchesModal: batches.reduce((sum, batch) => sum +
\* batch.quantity, 0)
batchesTotalQuantity(bs) == SeqSum([k \in DOMAIN bs |-> bs[k].quantity])

\* onAuthStateChanged reports a user; the inventory, categories and batches
\* effects of InventoryPage run: onValue(inventoryRef, ...),
\* onValue(categoriesRef, ...), onValue(batchesRef, ...)
AuthSignIn ==
  /\ ~user
  /\ user' = TRUE
  /\ batchesListeners' = batchesListeners \cup {"InventoryPage"}
  /\ batchesDue' = batchesDue \cup {"InventoryPage"}
  /\ inventoryListeners' = inventoryListeners \cup {"InventoryPage"}
  /\ inventoryDue' = inventoryDue \cup {"InventoryPage"}
  /\ categoriesListeners' = categoriesListeners \cup {"InventoryPage"}
  /\ categoriesDue' = categoriesDue \cup {"InventoryPage"}
  /\ UNCHANGED <<otherVars, modalInventoryVars, renderVars, storeVars, formVars,
                 modalVars, batches, isBatchesModalOpen, selectedItem, vbmBatches,
                 dbInventory, dbCategories, itemWrite, inventoryItems, categoriesOf,
                 isModalOpen, isEditModalOpen, isCategoryModalOpen, pageAlert>>

\* onAuthStateChanged reports no user: router.push('/login') unmounts the
\* page and its modals; the cleanups call off(inventoryRef),
\* off(categoriesRef) and off(batchesRef).  A write of a modal that is still
\* pending stays in flight; its continuation finds its component unmounted.
AuthSignOut ==
  /\ user
  /\ user' = FALSE
  /\ batchesListeners' = {}
  /\ batchesDue' = {}
  /\ batches' = <<>>
  /\ isBatchesModalOpen' = FALSE
  /\ selectedItem' = ""
  /\ vbmBatches' = <<>>
  /\ inventoryListeners' = {}
  /\ inventoryDue' = {}
  /\ categoriesListeners' = {}
  /\ categoriesDue' = {}
  /\ inventoryItems' = <<>>
  /\ categoriesOf' = NoCategories
  /\ isModalOpen' = FALSE
  /\ isEditModalOpen' = FALSE
  /\ isCategoryModalOpen' = FALSE
  /\ pageAlert' = ""
  /\ itemWrite' = IF itemWrite = NoWrite THEN NoWrite
                  ELSE [itemWrite EXCEPT !.by = "unmounted"]
  /\ UNCHANGED <<otherVars, modalInventoryVars, renderVars, storeVars, formVars,
                 modalVars, dbInventory, dbCategories>>

\* the batches listener of InventoryPage runs with the current snapshot
InventoryBatchesListener ==
  /\ "InventoryPage" \in batchesDue
  /\ batches' = StockByItem(dbBatches, KeysOf(DOMAIN dbBatches), <<>>)
  /\ batchesDue' = batchesDue \ {"InventoryPage"}
  /\ UNCHANGED <<otherVars, catalogVars, modalInventoryVars, renderVars, storeVars, formVars, modalVars, user, batchesListeners,
                 isBatchesModalOpen, selectedItem, vbmBatches>>

\* the eye button of a row: setSelectedItem(item), setIsBatchesModalOpen(true);
\* the effect of ViewBatchesModal runs: onValue(batchesRef, ...)
ViewBatches(item) ==
  /\ user
  /\ ~ModalShown
  /\ selectedItem' = item
  /\ isBatchesModalOpen' = TRUE
  /\ batchesListeners' = batchesListeners \cup {"ViewBatchesModal"}
  /\ batchesDue' = batchesDue \cup {"ViewBatchesModal"}
  /\ UNCHANGED <<otherVars, catalogVars, modalInventoryVars, renderVars, storeVars, formVars, modalVars, user, batches, vbmBatches>>

\* the batches listener of ViewBatchesModal runs with the current snapshot
ViewBatchesListener ==
  /\ "ViewBatchesModal" \in batchesDue
  /\ vbmBatches' = BatchesOfItem(dbBatches, selectedItem)
  /\ batchesDue' = batchesDue \ {"ViewBatchesModal"}
  /\ UNCHANGED <<otherVars, catalogVars, modalInventoryVars, renderVars, storeVars, formVars, modalVars, user, batchesListeners, batches,
                 isBatchesModalOpen, selectedItem>>

\* onClose of ViewBatchesModal: setIsBatchesModalOpen(false),
\* setSelectedItem(null); the modal unmounts and its effect cleanup runs
\* off(batchesRef), which names no callback and so detaches every callback
\* this client has on batches/
CloseBatches ==
  /\ isBatchesModalOpen /\ selectedItem # ""
  /\ isBatchesModalOpen' = FALSE
  /\ selectedItem' = ""
  /\ vbmBatches' = <<>>
  /\ batchesListeners' = {}
  /\ batchesDue' = {}
  /\ UNCHANGED <<otherVars, catalogVars, modalInventoryVars, renderVars, storeVars, formVars, modalVars, user, batches>>

----------------------------------------------------------------------------
(* The catalog: InventoryPage with AddInventoryModal, EditInventoryModal and *)
(* AddCategoryModal *)

NewItemId == "I3"

\* what the user types into the currentStock and minimumStock fields
\* (type="number" min="0": the form submits only with a valid value or none)
StockInputs == {<<>>, <<"4">>}

\* parseInt: optional sign and digits; a string without digits is NaN
parseInt(s) ==
  LET neg == Len(s) >= 1 /\ s[1] = "-"
      start == IF Len(s) >= 1 /\ s[1] \in {"-", "+"} THEN 2 ELSE 1
      ip == ScanInt(s, start, 0)
  IN  IF ip[2] = start THEN NaN ELSE Num(IF neg THEN 0 - ip[1] ELSE ip[1])

\* item.minimumStock || 0 on a field that may be absent (<<>>)
FieldOrZero(f) == IF f = <<>> THEN 0 ELSE f[1]

CatalogFrame ==
  UNCHANGED <<storeVars, formVars, modalVars, otherVars, renderVars>>

\* the inventory listener of InventoryPage runs with the current snapshot
InventoryListener ==
  /\ "InventoryPage" \in inventoryDue
  /\ inventoryItems' = dbInventory
  /\ inventoryDue' = inventoryDue \ {"InventoryPage"}
  /\ CatalogFrame
  /\ UNCHANGED <<viewVars, modalInventoryVars, dbInventory, dbCategories, itemWrite,
                 inventoryListeners, categoriesListeners, categoriesDue, categoriesOf,
                 isModalOpen, isEditModalOpen, isCategoryModalOpen, pageAlert>>

\* the categories listener of a view runs with the current snapshot
CategoriesListener(view) ==
  /\ view \in categoriesDue
  /\ categoriesOf' = [categoriesOf EXCEPT ![view] = dbCategories]
  /\ categoriesDue' = categoriesDue \ {view}
  /\ CatalogFrame
  /\ UNCHANGED <<viewVars, modalInventoryVars, dbInventory, dbCategories, itemWrite,
                 inventoryListeners, inventoryDue, categoriesListeners, inventoryItems,
                 isModalOpen, isEditModalOpen, isCategoryModalOpen, pageAlert>>

\* the "Add Item" button: setIsModalOpen(true)
OpenAddInventory ==
  /\ user /\ ~ModalShown
  /\ isModalOpen' = TRUE
  /\ CatalogFrame
  /\ UNCHANGED <<viewVars, modalInventoryVars, dbInventory, dbCategories, itemWrite,
                 inventoryListeners, inventoryDue, categoriesListeners, categoriesDue,
                 inventoryItems, categoriesOf, isEditModalOpen, isCategoryModalOpen,
                 pageAlert>>

CloseAddInventory ==
  /\ isModalOpen
  /\ isModalOpen' = FALSE
  /\ CatalogFrame
  /\ UNCHANGED <<viewVars, modalInventoryVars, dbInventory, dbCategories, itemWrite,
                 inventoryListeners, inventoryDue, categoriesListeners, categoriesDue,
                 inventoryItems, categoriesOf, isEditModalOpen, isCategoryModalOpen,
                 pageAlert>>

\* AddInventoryModal.handleSubmit up to await set(newItemRef, inventoryItem)
AddInventorySubmit(currentStock) ==
  /\ isModalOpen
  /\ itemWrite = NoWrite
  /\ NewItemId \notin DOMAIN dbInventory
  /\ itemWrite' = [op |-> "set", key |-> NewItemId,
                   data |-> [currentStock |-> OrZero(parseInt(currentStock)),
                             minimumStock |-> <<>>],
                   by |-> "AddInventoryModal"]
  /\ CatalogFrame
  /\ UNCHANGED <<viewVars, modalInventoryVars, dbInventory, dbCategories,
                 inventoryListeners, inventoryDue, categoriesListeners, categoriesDue,
                 inventoryItems, categoriesOf, isModalOpen, isEditModalOpen,
                 isCategoryModalOpen, pageAlert>>

\* the edit button of a row: setSelectedItem(item), setIsEditModalOpen(true);
\* the effect of EditInventoryModal runs: onValue(categoriesRef, ...)
EditItem(item) ==
  /\ user /\ ~ModalShown
  /\ item \in DOMAIN inventoryItems
  /\ selectedItem' = item
  /\ isEditModalOpen' = TRUE
  /\ categoriesListeners' = categoriesListeners \cup {"EditInventoryModal"}
  /\ categoriesDue' = categoriesDue \cup {"EditInventoryModal"}
  /\ CatalogFrame
  /\ UNCHANGED <<user, batchesListeners, batchesDue, batches, isBatchesModalOpen,
                 vbmBatches, modalInventoryVars, dbInventory, dbCategories, itemWrite,
                 inventoryListeners, inventoryDue, inventoryItems, categoriesOf,
                 isModalOpen, isCategoryModalOpen, pageAlert>>

\* onClose of EditInventoryModal: setIsEditModalOpen(false),
\* setSelectedItem(null); effect cleanup off(categoriesRef)
CloseEdit ==
  /\ isEditModalOpen
  /\ isEditModalOpen' = FALSE
  /\ selectedItem' = ""
  /\ categoriesListeners' = {}
  /\ categoriesDue' = {}
  /\ CatalogFrame
  /\ UNCHANGED <<user, batchesListeners, batchesDue, batches, isBatchesModalOpen,
                 vbmBatches, modalInventoryVars, dbInventory, dbCategories, itemWrite,
                 inventoryListeners, inventoryDue, inventoryItems, categoriesOf,
                 isModalOpen, isCategoryModalOpen, pageAlert>>

\* EditInventoryModal.handleSubmit up to await update(itemRef, updatedItem)
EditInventorySubmit(currentStock, minimumStock) ==
  /\ isEditModalOpen
  /\ selectedItem # ""
  /\ itemWrite = NoWrite
  /\ itemWrite' = [op |-> "update", key |-> selectedItem,
                   data |-> [currentStock |-> OrZero(parseInt(currentStock)),
                             minimumStock |-> <<OrZero(parseInt(minimumStock))>>],
                   by |-> "EditInventoryModal"]
  /\ CatalogFrame
  /\ UNCHANGED <<viewVars, modalInventoryVars, dbInventory, dbCategories,
                 inventoryListeners, inventoryDue, categoriesListeners, categoriesDue,
                 inventoryItems, categoriesOf, isModalOpen, isEditModalOpen,
                 isCategoryModalOpen, pageAlert>>

\* the pending write on inventory/ resolves: the record is stored, every
\* callback on inventory/ gets a new snapshot, and the handler resumes with
\* onSuccess() and onClose().  For EditInventoryModal these clear
\* selectedItem, which also unmounts a ViewBatchesModal opened in the meantime.
ItemWriteResolves ==
  /\ itemWrite # NoWrite
  /\ dbInventory' = (itemWrite.key :> itemWrite.data) @@ dbInventory
  /\ inventoryDue' = inventoryListeners
  /\ apmInventoryDue' = suppliersOn
  /\ itemWrite' = NoWrite
  /\ IF itemWrite.by = "AddInventoryModal"
     THEN /\ isModalOpen' = FALSE
          /\ UNCHANGED <<isEditModalOpen, selectedItem, categoriesListeners,
                         categoriesDue, batchesListeners, batchesDue, vbmBatches>>
     ELSE IF itemWrite.by = "EditInventoryModal"
     THEN /\ isEditModalOpen' = FALSE
          /\ selectedItem' = ""
          /\ IF isEditModalOpen
             THEN categoriesListeners' = {} /\ categoriesDue' = {}
             ELSE UNCHANGED <<categoriesListeners, categoriesDue>>
          /\ IF isBatchesModalOpen /\ selectedItem # ""
             THEN batchesListeners' = {} /\ batchesDue' = {} /\ vbmBatches' = <<>>
             ELSE UNCHANGED <<batchesListeners, batchesDue, vbmBatches>>
          /\ UNCHANGED isModalOpen
     ELSE UNCHANGED <<isModalOpen, isEditModalOpen, selectedItem, categoriesListeners,
                      categoriesDue, batchesListeners, batchesDue, vbmBatches>>
  /\ CatalogFrame
  /\ UNCHANGED <<user, batches, isBatchesModalOpen, apmInventoryItems, dbCategories,
                 inventoryListeners, inventoryItems, categoriesOf, isCategoryModalOpen,
                 pageAlert>>

\* the pending write on inventory/ rejects: catch alerts, the modal stays
ItemWriteRejects ==
  /\ itemWrite # NoWrite
  /\ itemWrite' = NoWrite
  /\ pageAlert' = "failed"
  /\ CatalogFrame
  /\ UNCHANGED <<viewVars, modalInventoryVars, dbInventory, dbCategories,
                 inventoryListeners, inventoryDue, categoriesListeners, categoriesDue,
                 inventoryItems, categoriesOf, isModalOpen, isEditModalOpen,
                 isCategoryModalOpen>>

\* the "Categories" button: setIsCategoryModalOpen(true); the effect of
\* AddCategoryModal runs: onValue(categoriesRef, ...)
OpenCategory ==
  /\ user /\ ~ModalShown
  /\ isCategoryModalOpen' = TRUE
  /\ categoriesListeners' = categoriesListeners \cup {"AddCategoryModal"}
  /\ categoriesDue' = categoriesDue \cup {"AddCategoryModal"}
  /\ CatalogFrame
  /\ UNCHANGED <<viewVars, modalInventoryVars, dbInventory, dbCategories, itemWrite,
                 inventoryListeners, inventoryDue, inventoryItems, categoriesOf,
                 isModalOpen, isEditModalOpen, pageAlert>>

\* onClose of AddCategoryModal; effect cleanup off(categoriesRef)
CloseCategory ==
  /\ isCategoryModalOpen
  /\ isCategoryModalOpen' = FALSE
  /\ categoriesListeners' = {}
  /\ categoriesDue' = {}
  /\ CatalogFrame
  /\ UNCHANGED <<viewVars, modalInventoryVars, dbInventory, dbCategories, itemWrite,
                 inventoryListeners, inventoryDue, inventoryItems, categoriesOf,
                 isModalOpen, isEditModalOpen, pageAlert>>

\* AddCategoryModal.handleDelete of a listed category, confirmed by the user:
\* remove(categoryRef) resolves (onSuccess does nothing) or rejects (alert)
handleDeleteCategory(categoryId, resolves) ==
  /\ isCategoryModalOpen
  /\ categoryId \in DOMAIN categoriesOf["AddCategoryModal"]
  /\ IF resolves
     THEN /\ dbCategories' = [id \in (DOMAIN dbCategories) \ {categoryId} |->
                                 dbCategories[id]]
          /\ categoriesDue' = categoriesListeners
          /\ UNCHANGED pageAlert
     ELSE /\ pageAlert' = "failed"
          /\ UNCHANGED <<dbCategories, categoriesDue>>
  /\ CatalogFrame
  /\ UNCHANGED <<viewVars, modalInventoryVars, dbInventory, itemWrite,
                 inventoryListeners, inventoryDue, categoriesListeners, inventoryItems,
                 categoriesOf, isModalOpen, isEditModalOpen, isCategoryModalOpen>>

\* the Record Store's delete on inventory/{id}, issued by a client other than
\* these pages (the delete button of InventoryPage has no handler)
RecordStoreDelete(itemId) ==
  /\ itemId \in DOMAIN dbInventory
  /\ dbInventory' = [id \in (DOMAIN dbInventory) \ {itemId} |-> dbInventory[id]]
  /\ inventoryDue' = inventoryListeners
  /\ apmInventoryDue' = suppliersOn
  /\ CatalogFrame
  /\ UNCHANGED <<viewVars, apmInventoryItems, dbCategories, itemWrite,
                 inventoryListeners, categoriesListeners, categoriesDue, inventoryItems,
                 categoriesOf, isModalOpen, isEditModalOpen, isCategoryModalOpen,
                 pageAlert>>

----------------------------------------------------------------------------
(* Rendering: the status of a batch row and the status badge of an item *)

SoonDays == 30

\* Math.ceil(a / b) for b > 0
Ceil(a, b) == 0 - ((0 - a) \div b)

\* today = new Date(); today.setHours(0, 0, 0, 0): midnight of the client's
\* calendar date, as an instant
LocalMidnight(day, offset) == day * MinutesPerDay - offset

\* the body of batches.map(...) of ViewBatchesModal, for one batch
BatchRow(expiryDate, day, offset) ==
  LET hasExpiryDate == expiryDate # <<>>
      expiry == DateTime(expiryDate)
      isExpired == hasExpiryDate /\ expiry < LocalMidnight(day, offset)
      daysUntilExpiry == Ceil(expiry - LocalMidnight(day, offset), MinutesPerDay)
      isExpiringSoon == hasExpiryDate /\ ~isExpired /\ daysUntilExpiry <= SoonDays
  IN  [status |-> IF ~hasExpiryDate THEN "No Expiry"
                  ELSE IF isExpired THEN "Expired"
                  ELSE IF isExpiringSoon THEN "Expires in"
                  ELSE "Active",
       daysUntilExpiry |-> IF hasExpiryDate THEN daysUntilExpiry ELSE 0]

\* getStatusBadge with the boundary moved: stock = minimumStock counts as in stock
getStatusBadge_StrictLow(stock, minimumStock) ==
  IF stock = 0 THEN "Out of Stock"
  ELSE IF stock < minimumStock THEN "Low Stock"
  ELSE "In Stock"

getStatusBadge(stock, minimumStock) ==
  IF stock = 0 THEN "Out of Stock"
  ELSE IF stock <= minimumStock THEN "Low Stock"
  ELSE "In Stock"

\* one row of the table of InventoryPage: the stock cell and the status cell
InventoryRow(itemId) ==
  [stock |-> getStockFromBatches(itemId),
   status |-> getStatusBadge(getStockFromBatches(itemId),
                             FieldOrZero(inventoryItems[itemId].minimumStock) * Scale)]

\* the stats counters of InventoryPage
stats ==
  [totalItems |-> Cardinality(DOMAIN inventoryItems),
   lowStock |-> Cardinality({id \in DOMAIN inventoryItems :
                   LET stock == getStockFromBatches(id)
                   IN  stock > 0 /\
                       stock <= FieldOrZero(inventoryItems[id].minimumStock) * Scale}),
   inStock |-> Cardinality({id \in DOMAIN inventoryItems : getStockFromBatches(id) > 0}),
   outOfStock |-> Cardinality({id \in DOMAIN inventoryItems :
                     getStockFromBatches(id) = 0})]

\* matchesStatus of filteredItems for one item
matchesStatus(statusFilter, itemId) ==
  LET stock == getStockFromBatches(itemId)
  IN  \/ statusFilter = ""
      \/ (statusFilter = "in-stock" /\ stock > 0)
      \/ (statusFilter = "low-stock" /\ stock > 0
            /\ stock <= FieldOrZero(inventoryItems[itemId].minimumStock) * Scale)
      \/ (statusFilter = "out-of-stock" /\ stock = 0)

NotRendered == [status |-> "", daysUntilExpiry |-> 0]

\* the summary filters of ViewBatchesModal: new Date(batch.expiryDate) < today
expiredBatches(bs, day, offset) ==
  SelectSeq(bs, LAMBDA batch :
    IF batch.expiryDate = <<>> THEN FALSE
    ELSE DateTime(batch.expiryDate) < LocalMidnight(day, offset))

\* daysUntilExpiry >= 0 && daysUntilExpiry <= 30
expiringSoonBatches(bs, day, offset) ==
  SelectSeq(bs, LAMBDA batch :
    IF batch.expiryDate = <<>> THEN FALSE
    ELSE LET daysUntilExpiry ==
               Ceil(DateTime(batch.expiryDate) - LocalMidnight(day, offset),
                    MinutesPerDay)
         IN  daysUntilExpiry >= 0 /\ daysUntilExpiry <= SoonDays)

NoSummary == [expired |-> 0, expiringSoon |-> 0]

\* one rendering of ViewBatchesModal whose batches state holds one batch: the
\* two summaries, then the row
RenderBatchRow ==
  /\ row = NotRendered
  /\ row' = BatchRow(rowExpiryDate, today, tzOffset)
  /\ LET bs == <<[expiryDate |-> rowExpiryDate]>>
     IN  summary' = [expired |-> Len(expiredBatches(bs, today, tzOffset)),
                     expiringSoon |-> Len(expiringSoonBatches(bs, today, tzOffset))]
  /\ UNCHANGED <<storeVars, formVars, modalVars, viewVars, otherVars, catalogVars,
                 modalInventoryVars, tzOffset, rowExpiryDate,
                 badgeStock, badgeMinimumStock, badge>>

\* the status cell of a row: getStatusBadge(getStockFromBatches(item.id),
\* item.minimumStock || 0)
RenderStatusBadge ==
  /\ badge = ""
  /\ badge' = getStatusBadge(badgeStock, badgeMinimumStock)
  /\ UNCHANGED <<storeVars, formVars, modalVars, viewVars, otherVars, catalogVars,
                 modalInventoryVars, tzOffset, rowExpiryDate,
                 row, summary, badgeStock, badgeMinimumStock>>

----------------------------------------------------------------------------
(* Initial states and specifications *)

\* stock seeded outside the purchasing flow: item I2 holds an expired lot of
\* 3 and a lot of 7 without expiry date
SeedBatch(quantity, expiryDate) ==
  [itemId |-> "I2", purchaseId |-> InitialStock, quantity |-> quantity * Scale,
   costPrice |-> 0, sellingPrice |-> 0, expiryDate |-> expiryDate]

SeedLedger == <<SeedBatch(3, <<0>>), SeedBatch(7, <<>>)>>

LineItem(itemId, costPrice, sellingPrice, ref) ==
  [itemId |-> itemId, costPrice |-> costPrice, sellingPrice |-> sellingPrice,
   batches |-> ref]

BatchEntry(quantity, expiryDate) == [quantity |-> quantity, expiryDate |-> expiryDate]

\* filled order forms: two line items with 2 + 1 batch entries, and one line
\* item with one batch entry
TwoItemForm ==
  [purchaseItems |-> <<LineItem("I1", <<"5">>, <<"8">>, 1),
                       LineItem("I2", <<"2", ".", "5">>, <<"4">>, 2)>>,
   heap |-> <<(<<BatchEntry(<<"1", "0">>, <<61>>), BatchEntry(<<"5">>, <<11>>)>>),
              (<<BatchEntry(<<"3">>, <<31>>)>>)>>]

OneItemForm ==
  [purchaseItems |-> <<LineItem("I1", <<"5">>, <<"8">>, 1)>>,
   heap |-> << <<BatchEntry(<<"3">>, <<61>>)>> >>]

InitForms == {TwoItemForm, OneItemForm}

InitStore ==
  /\ dbSuppliers = AllSuppliers
  /\ dbPurchases = <<>>
  /\ dbBatches = SeedLedger
  /\ purchaseKeys = 0
  /\ batchKeys = Len(dbBatches)
  /\ purchaseWrites = {}
  /\ batchWrites = {}

\* AddPurchaseModal is open, its suppliers listener has run, and the user has
\* filled the form
InitModal(forms) ==
  /\ isOpen = TRUE
  /\ loading = FALSE
  /\ suppliers = dbSuppliers
  /\ suppliersOn = TRUE
  /\ suppliersDue = FALSE
  /\ selectedSupplierId \in SupplierIds
  /\ purchaseDate = <<today>>
  /\ \E f \in forms : purchaseItems = f.purchaseItems /\ heap = f.heap
  /\ pc = "idle"
  /\ closure = NoClosure
  /\ awaited = {}
  /\ alert = ""
  /\ onSuccessCalls = 0
  /\ onCloseCalls = 0
  /\ edits = 0

\* InventoryPage before onAuthStateChanged has reported
InitView ==
  /\ user = FALSE
  /\ batchesListeners = {}
  /\ batchesDue = {}
  /\ batches = <<>>
  /\ isBatchesModalOpen = FALSE
  /\ selectedItem = ""
  /\ vbmBatches = <<>>

InitRender ==
  /\ tzOffset = 0
  /\ rowExpiryDate = <<>>
  /\ row = NotRendered
  /\ summary = NoSummary
  /\ badgeStock = 0
  /\ badgeMinimumStock = 0
  /\ badge = ""

InitOther == other = NoOther

\* the catalog as stored: item I1 with currentStock 0 and minimumStock 1, item
\* I2 with a currentStock of 5 left behind by the manual field and
\* minimumStock 12, one category; InventoryPage not yet mounted, and the
\* inventory listener of AddPurchaseModal has run
InitCatalog ==
  /\ dbInventory = [id \in ItemIds |->
                     IF id = "I1" THEN [currentStock |-> 0, minimumStock |-> <<1>>]
                     ELSE [currentStock |-> 5, minimumStock |-> <<12>>]]
  /\ dbCategories = [id \in {"K1"} |-> "Tablets"]
  /\ itemWrite = NoWrite
  /\ inventoryListeners = {}
  /\ inventoryDue = {}
  /\ categoriesListeners = {}
  /\ categoriesDue = {}
  /\ inventoryItems = <<>>
  /\ categoriesOf = NoCategories
  /\ isModalOpen = FALSE
  /\ isEditModalOpen = FALSE
  /\ isCategoryModalOpen = FALSE
  /\ pageAlert = ""
  /\ apmInventoryItems = dbInventory
  /\ apmInventoryDue = FALSE

(* The purchase order form and its submission *)

Init == today = 1 /\ InitStore /\ InitModal(InitForms) /\ InitView /\ InitRender /\ InitOther
  /\ InitCatalog

FormEdit ==
  \/ \E id \in SupplierIds \cup {""} : setSelectedSupplierId(id)
  \/ \E d \in {<<today + 1>>} : setPurchaseDate(d)
  \/ \E item \in ItemIds : handleAddItem(item)
  \/ \E index \in 1..Cardinality(ItemIds) : handleRemoveItem(index)
  \/ \E index \in 1..Cardinality(ItemIds), field \in {"costPrice", "sellingPrice"},
        value \in PriceInputs : handleItemChange(index, field, value)
  \/ \E itemIndex \in 1..Cardinality(ItemIds) : handleAddBatch(itemIndex)
  \/ \E itemIndex \in 1..Cardinality(ItemIds), batchIndex \in 1..MaxBatchEntries :
        handleRemoveBatch(itemIndex, batchIndex)
  \/ \E itemIndex \in 1..Cardinality(ItemIds), batchIndex \in 1..MaxBatchEntries :
        \/ \E value \in QtyInputs :
             handleBatchChange(itemIndex, batchIndex, "quantity", value)
        \/ \E value \in DateInputs :
             handleBatchChange(itemIndex, batchIndex, "expiryDate", value)

Submission ==
  \/ handleSubmit
  \/ PurchaseWriteResolves
  \/ PurchaseWriteRejects
  \/ \E w \in batchWrites : BatchWriteResolves(w)
  \/ \E w \in batchWrites : BatchWriteRejects(w)

Next ==
  \/ FormEdit
  \/ Submission
  \/ OpenPurchaseModal
  \/ ClosePurchaseModal
  \/ SuppliersListener
  \/ ModalInventoryListener
  \/ \E supplierId \in SupplierIds : handleDelete(supplierId)

Spec == Init /\ [][Next]_vars

(* The ledger views: InventoryPage and ViewBatchesModal, fed by submissions *)

InitLedgerViews ==
  today = 1 /\ InitStore /\ InitModal({TwoItemForm}) /\ InitView /\ InitRender /\ InitOther
  /\ InitCatalog

NextLedgerViews ==
  \/ Submission
  \/ AuthSignIn
  \/ AuthSignOut
  \/ InventoryBatchesListener
  \/ \E item \in ItemIds : ViewBatches(item)
  \/ ViewBatchesListener
  \/ CloseBatches

SpecLedgerViews == InitLedgerViews /\ [][NextLedgerViews]_vars

(* The two renderings, over every batch date, calendar date and UTC offset *)

MaxToday == 2
MaxStock == 3
MaxMinimumStock == 2

TzOffsets == {0 - 300, 0, 330}

InitRendering ==
  /\ today \in 1..MaxToday
  /\ InitStore /\ InitModal({OneItemForm}) /\ InitView /\ InitOther /\ InitCatalog
  /\ tzOffset \in TzOffsets
  /\ rowExpiryDate \in {<<>>} \cup
       {<<today + k>> : k \in {0 - 1, 0, 1, SoonDays - 1, SoonDays, SoonDays + 1}}
  /\ row = NotRendered
  /\ summary = NoSummary
  /\ badgeStock \in {k * Scale : k \in 0..MaxStock}
  /\ badgeMinimumStock \in {k * Scale : k \in 0..MaxMinimumStock}
  /\ badge = ""

NextRendering == RenderBatchRow \/ RenderStatusBadge

SpecRendering == InitRendering /\ [][NextRendering]_vars

(* Submissions of single orders, over cost prices and quantities: the totals *)
(* of the purchase record and the prices of the batch records.  The prices   *)
(* are ones whose products with 100 are exact in binary floating point, so   *)
(* that the decimal arithmetic of the model is the arithmetic of the code.   *)

CostInputs == {<<"5">>, <<"2", ".", "5">>, <<"0", ".", "1", "2", "5">>}

OrderQtyInputs == {<<"1">>, <<"2">>, <<"3">>}

PricedForm(costPrice, quantity) ==
  [purchaseItems |-> <<LineItem("I1", costPrice, <<"8">>, 1)>>,
   heap |-> << <<BatchEntry(quantity, <<61>>)>> >>]

\* item I1 at cost 5.00 and selling price 8.00 with the batch entries
\* (quantity 10, an expiry date) and (quantity 5, no expiry date)
ScenarioForm ==
  [purchaseItems |-> <<LineItem("I1", <<"5", ".", "0", "0">>, <<"8", ".", "0", "0">>, 1)>>,
   heap |-> << <<BatchEntry(<<"1", "0">>, <<61>>), BatchEntry(<<"5">>, <<>>)>> >>]

OrderForms ==
  {PricedForm(c, q) : c \in CostInputs, q \in OrderQtyInputs} \cup {ScenarioForm}

InitOrders == today = 1 /\ InitStore /\ InitModal(OrderForms) /\ InitView /\ InitRender /\ InitOther
  /\ InitCatalog

NextOrders == Submission

SpecOrders == InitOrders /\ [][NextOrders]_vars

(* Two sessions submitting at the same time, and InventoryPage watching *)

InitTwoSessions ==
  today = 1 /\ InitStore /\ InitModal({TwoItemForm}) /\ InitView /\ InitRender /\ InitOther
  /\ InitCatalog

NextTwoSessions ==
  \/ Submission
  \/ OtherSubmission
  \/ AuthSignIn
  \/ InventoryBatchesListener

SpecTwoSessions == InitTwoSessions /\ [][NextTwoSessions]_vars

(* The catalog: InventoryPage and its modals over a ledger that stays as *)
(* seeded *)

InitCatalogViews ==
  today = 1 /\ InitStore /\ InitModal({OneItemForm}) /\ InitView /\ InitRender
  /\ InitOther /\ InitCatalog

CatalogEdit ==
  \/ OpenAddInventory
  \/ CloseAddInventory
  \/ \E currentStock \in StockInputs : AddInventorySubmit(currentStock)
  \/ \E item \in {"I2", NewItemId} : EditItem(item)
  \/ CloseEdit
  \/ \E currentStock \in StockInputs, minimumStock \in StockInputs :
        EditInventorySubmit(currentStock, minimumStock)
  \/ ItemWriteResolves
  \/ ItemWriteRejects

NextCatalogViews ==
  \/ CatalogEdit
  \/ AuthSignIn
  \/ AuthSignOut
  \/ InventoryListener
  \/ InventoryBatchesListener
  \/ \E item \in {"I2"} : ViewBatches(item)
  \/ ViewBatchesListener
  \/ CloseBatches

SpecCatalogViews == InitCatalogViews /\ [][NextCatalogViews]_vars

(* Subscriptions: every view that listens is opened and closed while each of *)
(* the four collections changes *)

NextSubscriptions ==
  \/ AuthSignIn
  \/ AuthSignOut
  \/ InventoryListener
  \/ \E view \in CategoryViews : CategoriesListener(view)
  \/ InventoryBatchesListener
  \/ \E item \in {"I1"} : ViewBatches(item)
  \/ ViewBatchesListener
  \/ CloseBatches
  \/ \E item \in {"I1"} : EditItem(item)
  \/ CloseEdit
  \/ EditInventorySubmit(<<"4">>, <<"4">>)
  \/ ItemWriteResolves
  \/ OpenCategory
  \/ CloseCategory
  \/ \E categoryId \in DOMAIN dbCategories : handleDeleteCategory(categoryId, TRUE)
  \/ OpenPurchaseModal
  \/ ClosePurchaseModal
  \/ SuppliersListener
  \/ ModalInventoryListener
  \/ \E supplierId \in SupplierIds : handleDelete(supplierId)
  \/ handleSubmit
  \/ PurchaseWriteResolves
  \/ \E w \in batchWrites : BatchWriteResolves(w)

SpecSubscriptions == InitCatalogViews /\ [][NextSubscriptions]_vars

(* An order for an item that the record store loses before submission *)

NextMissingItem ==
  \/ \E itemId \in ItemIds : RecordStoreDelete(itemId)
  \/ ModalInventoryListener
  \/ \E item \in ItemIds : handleAddItem(item)
  \/ \E index \in 1..Cardinality(ItemIds) : handleRemoveItem(index)
  \/ \E itemIndex \in 1..Cardinality(ItemIds), batchIndex \in 1..MaxBatchEntries :
        \E value \in {<<"7">>} : handleBatchChange(itemIndex, batchIndex, "quantity", value)
  \/ \E itemIndex \in 1..Cardinality(ItemIds), batchIndex \in 1..MaxBatchEntries :
        \E value \in {<<today + 1>>} :
          handleBatchChange(itemIndex, batchIndex, "expiryDate", value)
  \/ Submission

SpecMissingItem == InitCatalogViews /\ [][NextMissingItem]_vars

(* Both views of the ledger while orders are submitted whose quantities the *)
(* user changes in flight *)

NextTotals ==
  \/ Submission
  \/ \E value \in {<<"0">>, <<"-", "1">>} : handleBatchChange(1, 1, "quantity", value)
  \/ handleAddBatch(1)
  \/ AuthSignIn
  \/ InventoryBatchesListener
  \/ \E item \in ItemIds : ViewBatches(item)
  \/ ViewBatchesListener
  \/ CloseBatches

SpecTotals == InitCatalogViews /\ [][NextTotals]_vars

(* Orders submitted while SuppliersPage edits and deletes the supplier *)

NextSuppliers ==
  \/ Submission
  \/ OpenPurchaseModal
  \/ ClosePurchaseModal
  \/ SuppliersListener
  \/ \E supplierId \in SupplierIds : handleDelete(supplierId)
  \/ \E supplierId \in SupplierIds, formData \in SupplierInputs :
        SupplierModalSubmit(supplierId, formData)

SpecSuppliers == InitLedgerViews /\ [][NextSuppliers]_vars

(* The order form while every write of the store eventually settles: set() *)
(* returns a promise that the store resolves or rejects *)

InitSettling ==
  today = 1 /\ InitStore /\ InitModal({OneItemForm}) /\ InitView /\ InitRender /\ InitOther
  /\ InitCatalog

WriteSettles ==
  \/ PurchaseWriteResolves
  \/ PurchaseWriteRejects
  \/ \E w \in batchWrites : BatchWriteResolves(w)
  \/ \E w \in batchWrites : BatchWriteRejects(w)

NextSettling ==
  \/ FormEdit
  \/ Submission
  \/ OpenPurchaseModal
  \/ ClosePurchaseModal

SpecSettling == InitSettling /\ [][NextSettling]_vars /\ WF_vars(WriteSettles)

----------------------------------------------------------------------------
(* Claims *)

RECURSIVE SumQuantity(_, _)
SumQuantity(data, ids) ==
  IF ids = {} THEN 0
  ELSE LET id == CHOOSE x \in ids : TRUE
       IN  data[id].quantity + SumQuantity(data, ids \ {id})

BatchIdsOfItem(itemId) == {id \in DOMAIN dbBatches : dbBatches[id].itemId = itemId}

InventoryUpToDate == "InventoryPage" \in batchesListeners \ batchesDue

\* C1: whenever the batches listener of InventoryPage has run on the current
\* content of the batches collection, the stock shown for every item is the
\* sum of the quantities of all its batches, expired and no-expiry ones
\* included, and 0 for an item without batches.
C1_StockIsSumOfBatches ==
  InventoryUpToDate =>
    \A itemId \in ItemIds :
      getStockFromBatches(itemId) = SumQuantity(dbBatches, BatchIdsOfItem(itemId))

\* I2 holds the expired lot of 3, the no-expiry lot of 7 and a purchased lot
\* of 3; I1 has no batch at all
C1_Witness ==
  /\ InventoryUpToDate
  /\ getStockFromBatches("I2") = 13 * Scale
  /\ \E id \in BatchIdsOfItem("I2") : dbBatches[id].expiryDate = <<>>
  /\ \E id \in BatchIdsOfItem("I2") : dbBatches[id].expiryDate = <<today - 1>>
  /\ BatchIdsOfItem("I1") = {}
  /\ getStockFromBatches("I1") = 0

\* C2: the status rendered for a batch row is decided by calendar dates only:
\* no expiry date is No Expiry, yesterday is Expired, today and today + 30 are
\* expiring soon, today + 31 is Active, at every UTC offset of the client.
C2_StatusByCalendarDate ==
  row # NotRendered =>
    /\ row.status \in {"No Expiry", "Expired", "Expires in", "Active"}
    /\ rowExpiryDate = <<>> => row.status = "No Expiry"
    /\ rowExpiryDate = <<today - 1>> => row.status = "Expired"
    /\ rowExpiryDate = <<today>> => row.status = "Expires in"
    /\ rowExpiryDate = <<today + SoonDays>> => row.status = "Expires in"
    /\ rowExpiryDate = <<today + SoonDays + 1>> => row.status = "Active"

\* C3: the badge is Out of Stock for stock 0, Low Stock for
\* 0 < stock <= minimumStock and In Stock for stock > minimumStock.
C3_StatusBadge ==
  badge # "" =>
    /\ badgeStock = 0 => badge = "Out of Stock"
    /\ (0 < badgeStock /\ badgeStock <= badgeMinimumStock) => badge = "Low Stock"
    /\ (0 < badgeStock /\ badgeStock > badgeMinimumStock) => badge = "In Stock"

\* the boundary: stock equal to a positive minimumStock is rendered Low Stock
C3_Witness ==
  /\ badge = "Low Stock"
  /\ badgeStock = badgeMinimumStock
  /\ badgeStock > 0

\* the order form as the user sees it: every line item with its batch entries
FormView ==
  [i \in DOMAIN purchaseItems |->
     [itemId |-> purchaseItems[i].itemId, costPrice |-> purchaseItems[i].costPrice,
      sellingPrice |-> purchaseItems[i].sellingPrice,
      batches |-> heap[purchaseItems[i].batches]]]

BadQuantity(s) == s = <<>> \/ isNaN(parseFloat(s)) \/ parseFloat(s).v <= 0

BadPrice(s) == s = <<>> \/ isNaN(parseFloat(s)) \/ parseFloat(s).v < 0

FormInvalid ==
  \/ FormView = <<>>
  \/ \E i \in DOMAIN FormView :
       \/ FormView[i].batches = <<>>
       \/ BadPrice(FormView[i].costPrice)
       \/ BadPrice(FormView[i].sellingPrice)
       \/ \E j \in DOMAIN FormView[i].batches :
            \/ BadQuantity(FormView[i].batches[j].quantity)
            \/ FormView[i].batches[j].expiryDate = <<>>

BatchIdsOfPurchase(data, purchaseId) ==
  {id \in DOMAIN data : data[id].purchaseId = purchaseId}

\* C4: a submission of an invalid form (no line item, a line item without
\* batch entry, a bad quantity, an empty expiry date, a bad cost or selling
\* price) writes no purchase and no batch, issues no write and leaves the form
\* as it was.
C4_InvalidSubmissionRejected ==
  [][(handleSubmit /\ FormInvalid) =>
       /\ UNCHANGED <<dbPurchases, dbBatches, purchaseWrites, batchWrites,
                      purchaseKeys, batchKeys>>
       /\ UNCHANGED <<selectedSupplierId, purchaseDate, purchaseItems, heap>>
       /\ ~loading']_vars

\* a submission was rejected for a quantity that is not above 0, and nothing
\* was written
C4_Witness ==
  /\ alert = "quantity"
  /\ \E i \in DOMAIN FormView : \E j \in DOMAIN FormView[i].batches :
       /\ FormView[i].batches[j].quantity # <<>>
       /\ ~isNaN(parseFloat(FormView[i].batches[j].quantity))
       /\ parseFloat(FormView[i].batches[j].quantity).v <= 0
  /\ purchaseKeys = 0
  /\ dbPurchases = <<>>
  /\ purchaseWrites = {} /\ batchWrites = {}

\* C5: when a submission succeeds, its purchase record exists and the
\* quantities of the batch records that carry its purchase id add up to the
\* totalQuantity of the purchase record.
C5_BatchesSumToTotalQuantity ==
  [][(onSuccessCalls' = onSuccessCalls + 1) =>
       /\ purchaseKeys \in DOMAIN dbPurchases'
       /\ BatchIdsOfPurchase(dbBatches', purchaseKeys) # {}
       /\ SumQuantity(dbBatches', BatchIdsOfPurchase(dbBatches', purchaseKeys))
            = dbPurchases'[purchaseKeys].totalQuantity]_vars

\* C6: a submission whose selected supplier is not in the suppliers
\* collection issues no write at all.
C6_UnknownSupplierRejected ==
  [][(handleSubmit /\ selectedSupplierId \notin DOMAIN dbSuppliers) =>
       UNCHANGED <<dbPurchases, dbBatches, purchaseWrites, batchWrites>>]_vars

\* C7: every batch record, and every batch write in flight, that does not
\* carry the initial-stock sentinel names a purchase record that exists.
C7_BatchReferencesPurchase ==
  /\ \A id \in DOMAIN dbBatches :
       dbBatches[id].purchaseId # InitialStock =>
         dbBatches[id].purchaseId \in DOMAIN dbPurchases
  /\ \A w \in batchWrites : w.data.purchaseId \in DOMAIN dbPurchases

\* a purchased batch is in the ledger while the purchase write of a second
\* submission was rejected
C7_Witness ==
  /\ \E id \in DOMAIN dbBatches : dbBatches[id].purchaseId # InitialStock
  /\ \E p \in 1..purchaseKeys :
       p \notin DOMAIN dbPurchases /\ \A w \in purchaseWrites : w.key # p

\* C8: no step removes or changes a purchase record or a batch record, also
\* not the failure of a submission.
C8_NothingUndone ==
  [][/\ \A id \in DOMAIN dbPurchases :
          id \in DOMAIN dbPurchases' /\ dbPurchases'[id] = dbPurchases[id]
     /\ \A id \in DOMAIN dbBatches :
          id \in DOMAIN dbBatches' /\ dbBatches'[id] = dbBatches[id]]_vars

\* a submission has failed, every write has settled, and its purchase record
\* promises more than the batches that reference it hold
C8_Witness ==
  /\ alert = "failed" /\ ~loading
  /\ purchaseWrites = {} /\ batchWrites = {}
  /\ \E p \in DOMAIN dbPurchases :
       /\ BatchIdsOfPurchase(dbBatches, p) # {}
       /\ dbPurchases[p].totalQuantity >
            SumQuantity(dbBatches, BatchIdsOfPurchase(dbBatches, p))

\* C9: with an authenticated user on InventoryPage and no snapshot of the
\* batches collection under way, the stock shown for every item is the sum of
\* the quantities of its batches in the ledger.
C9_StockFollowsLedger ==
  (user /\ batchesDue = {}) =>
    \A itemId \in ItemIds :
      getStockFromBatches(itemId) = SumQuantity(dbBatches, BatchIdsOfItem(itemId))

\* C10: the step on which a submission ends in failure reports the failure,
\* leaves the supplier, the date and the line items with their batch entries
\* as they are, calls neither onSuccess nor onClose and issues no write.
C10_FailureKeepsForm ==
  [][(loading /\ ~loading' /\ onSuccessCalls' = onSuccessCalls) =>
       /\ alert' = "failed"
       /\ FormView' = FormView
       /\ UNCHANGED <<selectedSupplierId, purchaseDate, onCloseCalls, isOpen>>
       /\ purchaseWrites' \subseteq purchaseWrites
       /\ batchWrites' \subseteq batchWrites
       /\ UNCHANGED <<purchaseKeys, batchKeys>>]_vars

\* a submission failed on a rejected batch write and the filled form is still
\* there
C10_Witness ==
  /\ alert = "failed" /\ ~loading /\ pc = "idle"
  /\ dbPurchases # <<>>
  /\ FormView # <<>> /\ ~FormInvalid
  /\ selectedSupplierId # ""
  /\ onSuccessCalls = 0 /\ onCloseCalls = 0

\* C11: a batch whose expiryDate is today's date is rendered as expiring soon
\* with 0 days remaining, is counted in the expiring-soon summary and is not
\* counted in the expired summary, at every UTC offset of the client.
C11_TodayIsExpiringSoon ==
  (row # NotRendered /\ rowExpiryDate = <<today>>) =>
    /\ row.status = "Expires in"
    /\ row.daysUntilExpiry = 0
    /\ summary.expiringSoon = 1
    /\ summary.expired = 0

\* C12: the totalCost of every purchase record, stored or on its way to the
\* store, is a whole number of minor units.
C12_TotalCostIsWholeMinorUnits ==
  /\ \A p \in DOMAIN dbPurchases : dbPurchases[p].totalCost % Scale = 0
  /\ \A w \in purchaseWrites : w.data.totalCost % Scale = 0

ScenarioFormView ==
  <<[itemId |-> "I1", costPrice |-> <<"5", ".", "0", "0">>,
     sellingPrice |-> <<"8", ".", "0", "0">>,
     batches |-> <<BatchEntry(<<"1", "0">>, <<61>>), BatchEntry(<<"5">>, <<>>)>>]>>

\* C13 as stated: submitting the order {S1, I1 at cost 5.00 and selling price
\* 8.00, batch entries (10, an expiry date) and (5, no expiry date)} issues the
\* purchase record with totalQuantity 15 and totalCost 7500.
C13_ScenarioProducesRecords ==
  [][(handleSubmit /\ FormView = ScenarioFormView /\ selectedSupplierId = "S1") =>
       \E w \in purchaseWrites' :
         /\ w.data.totalQuantity = 15 * Scale
         /\ w.data.totalCost = 7500 * Scale]_vars

\* C13 as amended: the submission of that order is rejected for the missing
\* expiry date of its second batch entry; no purchase and no batch is written
\* or issued and the form stays as it is.
C13_ScenarioRejected ==
  [][(handleSubmit /\ FormView = ScenarioFormView /\ selectedSupplierId = "S1") =>
       /\ alert' = "expiry date"
       /\ UNCHANGED <<dbPurchases, dbBatches, purchaseWrites, batchWrites,
                      purchaseKeys, batchKeys, loading>>
       /\ FormView' = FormView]_vars

\* the order of the scenario was submitted and rejected
C13_Witness ==
  /\ FormView = ScenarioFormView
  /\ selectedSupplierId = "S1"
  /\ alert = "expiry date"
  /\ dbPurchases = <<>> /\ purchaseWrites = {} /\ batchWrites = {}
  /\ DOMAIN dbBatches = DOMAIN SeedLedger

StockOfItem(data, itemId) ==
  SumQuantity(data, {id \in DOMAIN data : data[id].itemId = itemId})

\* C14: no step removes or changes a batch record or a purchase record, and
\* no step lowers the sum of the batch quantities of any item.
C14_LedgerOnlyGrows ==
  [][/\ \A id \in DOMAIN dbBatches :
          id \in DOMAIN dbBatches' /\ dbBatches'[id] = dbBatches[id]
     /\ \A id \in DOMAIN dbPurchases :
          id \in DOMAIN dbPurchases' /\ dbPurchases'[id] = dbPurchases[id]
     /\ \A itemId \in ItemIds :
          StockOfItem(dbBatches', itemId) >= StockOfItem(dbBatches, itemId)]_vars

\* C15: every batch record of a purchase, in the ledger or on its way to it,
\* has a quantity above 0 and an expiry date.
C15_PurchasedBatchesValid ==
  /\ \A id \in DOMAIN dbBatches :
       dbBatches[id].purchaseId # InitialStock =>
         dbBatches[id].quantity > 0 /\ dbBatches[id].expiryDate # <<>>
  /\ \A w \in batchWrites : w.data.quantity > 0 /\ w.data.expiryDate # <<>>

\* the quantity an order form asks for of one item
OrderedQuantity(form, itemId) ==
  LET es == Entries(form.purchaseItems, form.heap)
  IN  SeqSum([k \in DOMAIN es |->
               IF es[k].item.itemId = itemId
               THEN OrZero(parseFloat(es[k].batch.quantity)) ELSE 0])

FirstPurchaseId == CHOOSE p \in 1..2 : p # other.purchaseId

BothSucceeded == purchaseKeys = 2 /\ onSuccessCalls = 1 /\ other.outcome = "success"

\* C16: when the two sessions have each made one submission and both have
\* succeeded, each has its own purchase record with its own totals and its own
\* batch records, one per batch entry, and the stock of every item, in the
\* ledger and on an up-to-date InventoryPage, is the stock before plus what
\* the two orders asked for.
C16_BothOrdersCounted ==
  BothSucceeded =>
    /\ {FirstPurchaseId, other.purchaseId} \subseteq DOMAIN dbPurchases
    /\ dbPurchases[FirstPurchaseId].totalQuantity =
         totalQuantity(TwoItemForm.purchaseItems, TwoItemForm.heap)
    /\ dbPurchases[other.purchaseId].totalQuantity =
         totalQuantity(OtherForm.purchaseItems, OtherForm.heap)
    /\ Cardinality(BatchIdsOfPurchase(dbBatches, FirstPurchaseId)) =
         Len(Entries(TwoItemForm.purchaseItems, TwoItemForm.heap))
    /\ Cardinality(BatchIdsOfPurchase(dbBatches, other.purchaseId)) =
         Len(Entries(OtherForm.purchaseItems, OtherForm.heap))
    /\ \A itemId \in ItemIds :
         /\ StockOfItem(dbBatches, itemId) =
              StockOfItem(SeedLedger, itemId) + OrderedQuantity(TwoItemForm, itemId)
                + OrderedQuantity(OtherForm, itemId)
         /\ InventoryUpToDate =>
              getStockFromBatches(itemId) = StockOfItem(dbBatches, itemId)

\* both succeeded with their writes interleaved: the second session got the
\* first purchase id and the last batch ids, and InventoryPage shows 16 of I2
C16_Witness ==
  /\ BothSucceeded
  /\ other.purchaseId = 1
  /\ \A b \in BatchIdsOfPurchase(dbBatches, 1), a \in BatchIdsOfPurchase(dbBatches, 2) :
       b > a
  /\ InventoryUpToDate
  /\ getStockFromBatches("I2") = 16 * Scale

\* C17: once a submission is finished, with success or with failure (loading
\* is false again), no batch write is pending.
C17_FinishedMeansSettled ==
  (~loading /\ pc = "idle") => batchWrites = {}

\* the views that are on screen
ViewBatchesShown == isBatchesModalOpen /\ selectedItem # ""

\* C18: a view that is closed holds no subscription and its snapshot callback
\* does not run: while AddPurchaseModal is closed its suppliers and inventory
\* callbacks are not registered and neither of them runs; the same for the
\* batches callback of ViewBatchesModal, the
\* categories callbacks of EditInventoryModal and AddCategoryModal, and, while
\* there is no user, for the three callbacks of InventoryPage.
C18_ClosedViewsAreNotCalled ==
  /\ [](~isOpen => ~suppliersOn /\ ~suppliersDue /\ ~apmInventoryDue)
  /\ [](~ViewBatchesShown => "ViewBatchesModal" \notin batchesListeners \cup batchesDue)
  /\ [](~isEditModalOpen => "EditInventoryModal" \notin categoriesListeners \cup categoriesDue)
  /\ [](~isCategoryModalOpen => "AddCategoryModal" \notin categoriesListeners \cup categoriesDue)
  /\ [](~user => /\ batchesListeners \cup batchesDue = {}
                 /\ inventoryListeners \cup inventoryDue = {}
                 /\ categoriesListeners \cup categoriesDue = {})
  /\ [][/\ (SuppliersListener \/ ModalInventoryListener) => isOpen
        /\ ViewBatchesListener => ViewBatchesShown
        /\ CategoriesListener("EditInventoryModal") => isEditModalOpen
        /\ CategoriesListener("AddCategoryModal") => isCategoryModalOpen
        /\ (InventoryBatchesListener \/ InventoryListener
              \/ CategoriesListener("InventoryPage")) => user]_vars

\* AddPurchaseModal and the modals of InventoryPage are closed after they
\* received a snapshot, and suppliers, categories, inventory and batches have
\* changed without them being told
C18_Witness ==
  /\ ~isOpen /\ suppliers # <<>> /\ dbSuppliers = <<>>
  /\ apmInventoryItems # dbInventory
  /\ ~isEditModalOpen /\ categoriesOf["EditInventoryModal"] # <<>> /\ dbCategories = <<>>
  /\ ~isCategoryModalOpen /\ ~ViewBatchesShown
  /\ dbBatches # SeedLedger

\* a line item of the order names an item that inventory/ no longer holds
MissingItem ==
  \E i \in DOMAIN purchaseItems : purchaseItems[i].itemId \notin DOMAIN dbInventory

\* C19: a submission of an order with a line item whose inventory item no
\* longer exists is rejected: it shows an alert, stays idle and issues no write
\* of a purchase record or a batch record.
C19_MissingItemRejected ==
  [][(handleSubmit /\ MissingItem) =>
       /\ alert' # "" /\ pc' = "idle"
       /\ UNCHANGED <<dbPurchases, dbBatches, purchaseWrites, batchWrites>>]_vars

\* the stock of an item according to the batches state of InventoryPage
LedgerStock(itemId) == IF itemId \in DOMAIN batches THEN batches[itemId] ELSE 0

\* C20: the row of an item shows the stock aggregated from batches and the
\* status of that stock against the item's minimumStock; a step of
\* AddInventoryModal or EditInventoryModal (submit, the write settling, open,
\* close) or of the inventory listener writes no batch and leaves the stock
\* shown for every item unchanged, whatever currentStock was entered.
C20_CatalogLeavesStockAlone ==
  /\ [](\A i \in DOMAIN inventoryItems :
          InventoryRow(i) =
            [stock |-> LedgerStock(i),
             status |-> getStatusBadge(LedgerStock(i),
                          FieldOrZero(inventoryItems[i].minimumStock) * Scale)])
  /\ [][(CatalogEdit \/ InventoryListener) =>
          /\ UNCHANGED <<dbBatches, batchWrites, batchKeys>>
          /\ \A i \in (DOMAIN inventoryItems) \cap (DOMAIN inventoryItems') :
               (InventoryRow(i).stock)' = InventoryRow(i).stock]_vars

\* InventoryPage shows item I2, edited to currentStock 4, with the 10 units of
\* its batches, and the new item, created with currentStock 4, with stock 0
C20_Witness ==
  /\ user /\ dbBatches = SeedLedger
  /\ {"I2", NewItemId} \subseteq DOMAIN inventoryItems
  /\ inventoryItems["I2"].currentStock = 4
  /\ InventoryRow("I2").stock = 10 * Scale
  /\ inventoryItems[NewItemId].currentStock = 4
  /\ InventoryRow(NewItemId) = [stock |-> 0, status |-> "Out of Stock"]

\* C21: a submission that passed validation (loading is true) eventually
\* finishes with loading false, given that every write eventually settles.
C21_SubmissionFinishes == loading ~> ~loading

\* a submission is waiting for its batch writes
C21_Witness == loading /\ pc = "awaitBatches" /\ awaited # {}

\* no two line items of the order form name the same item
DistinctLineItems ==
  \A i, j \in DOMAIN purchaseItems :
    purchaseItems[i].itemId = purchaseItems[j].itemId => i = j

\* the inventory items that the batches of a purchase reference
ItemsOfPurchase(data, purchaseId) ==
  {data[id].itemId : id \in BatchIdsOfPurchase(data, purchaseId)}

\* C22: the line items of the form have distinct itemIds, and for
\* every purchase record whose batch writes have all settled, totalItems is the
\* number of distinct items that its batches reference.
C22_TotalItemsIsDistinctItems ==
  /\ DistinctLineItems
  /\ \A p \in DOMAIN dbPurchases :
       (\A w \in batchWrites : w.data.purchaseId # p) =>
         dbPurchases[p].totalItems = Cardinality(ItemsOfPurchase(dbBatches, p))

\* the name a purchase record takes from a supplier record
SupplierDisplayName(supplier) ==
  IF supplier.companyName # "" THEN supplier.companyName ELSE supplier.name

\* C23: the purchase write that a submission issues for a supplier of the
\* suppliers collection carries the name that this supplier has in the
\* collection at that moment, and no step changes or removes a purchase record
\* that exists.
C23_SupplierNameIsSnapshot ==
  [][/\ handleSubmit =>
          \A w \in purchaseWrites' \ purchaseWrites :
            w.data.supplierId \in DOMAIN dbSuppliers =>
              w.data.supplierName = SupplierDisplayName(dbSuppliers[w.data.supplierId])
     /\ \A id \in DOMAIN dbPurchases :
          id \in DOMAIN dbPurchases' /\ dbPurchases'[id] = dbPurchases[id]]_vars

\* C24: the counters lowStock, inStock and outOfStock of InventoryPage add up
\* to totalItems, and the 'in-stock' filter shows an item exactly when its
\* badge is In Stock.
C24_CountersPartitionItems ==
  /\ stats.lowStock + stats.inStock + stats.outOfStock = stats.totalItems
  /\ \A id \in DOMAIN inventoryItems :
       matchesStatus("in-stock", id) <=> InventoryRow(id).status = "In Stock"

\* C25: while InventoryPage has a user it keeps its callback on the
\* categories collection, whatever modals were opened and closed, and once no
\* snapshot of the collection is under way the categories it holds are the
\* categories of the collection.
C25_PageKeepsCategoriesListener ==
  user =>
    /\ "InventoryPage" \in categoriesListeners
    /\ categoriesDue = {} => categoriesOf["InventoryPage"] = dbCategories

\* C26: in a rendering of ViewBatchesModal the expired summary counts the
\* batch exactly when its row is shown as Expired, the expiring-soon summary
\* counts it exactly when its row is shown as expiring soon, and no batch is in
\* both summaries.
C26_SummariesAgreeWithRows ==
  row # NotRendered =>
    /\ summary.expired = (IF row.status = "Expired" THEN 1 ELSE 0)
    /\ summary.expiringSoon = (IF row.status = "Expires in" THEN 1 ELSE 0)
    /\ summary.expired + summary.expiringSoon <= 1

\* the batch entries of a line item of the form
BatchEntriesOf(i) == heap[purchaseItems[i].batches]

\* C27: every line item of the order form has at least one batch entry, and
\* handleRemoveBatch on a line item with a single batch entry leaves supplier,
\* date, line items and batch entries as they are.
C27_LineItemsKeepABatchEntry ==
  /\ [](\A i \in DOMAIN purchaseItems : Len(BatchEntriesOf(i)) >= 1)
  /\ [][\A itemIndex \in DOMAIN purchaseItems :
          (handleRemoveBatch(itemIndex, 1) /\ Len(BatchEntriesOf(itemIndex)) = 1) =>
            UNCHANGED formVars]_vars

\* handleRemoveBatch has refused to remove the only batch entry of a line item
C27_Witness ==
  /\ alert = "at least one batch"
  /\ \E i \in DOMAIN purchaseItems : Len(BatchEntriesOf(i)) = 1

\* C28: a submission is in flight only while loading is true, handleSubmit
\* starts only when none is in flight, at most one purchase write of the modal
\* is pending, and when the first submission of the form succeeds there is
\* exactly one purchase record and no purchase write pending.
C28_OneSubmissionInFlight ==
  /\ [](pc # "idle" => loading)
  /\ [](Cardinality(purchaseWrites) <= 1)
  /\ [][handleSubmit => (~loading /\ pc = "idle")]_vars
  /\ [][(onSuccessCalls' = onSuccessCalls + 1 /\ purchaseKeys = 1) =>
          (DOMAIN dbPurchases' = {1} /\ purchaseWrites' = {})]_vars

\* the first submission of a filled form has succeeded
C28_Witness ==
  /\ onSuccessCalls = 1 /\ purchaseKeys = 1 /\ ~loading
  /\ DOMAIN dbPurchases = {1}
  /\ BatchIdsOfPurchase(dbBatches, 1) # {}

\* C29: when a submission succeeds after an earlier submission of the same
\* form has failed, and every write has settled, there is one purchase record
\* and the ledger holds, for every item, the seeded stock plus the quantities
\* of one order.
C29_RetryCountsOnce ==
  (onSuccessCalls = 1 /\ alert = "failed" /\ purchaseWrites = {} /\ batchWrites = {}) =>
    /\ Cardinality(DOMAIN dbPurchases) = 1
    /\ \A itemId \in ItemIds :
         StockOfItem(dbBatches, itemId) =
           StockOfItem(SeedLedger, itemId) + OrderedQuantity(TwoItemForm, itemId)

\* both views hold a callback on batches/ and no snapshot is under way: both
\* have received the snapshot of the current ledger
BothViewsUpToDate ==
  /\ ViewBatchesShown
  /\ {"InventoryPage", "ViewBatchesModal"} \subseteq batchesListeners
  /\ batchesDue = {}

====
